---- MODULE Spec2Model ----
(***************************************************************************)
(* A model of the voice-recorder extension: its transcription services,    *)
(* the offscreen recorder and the side panel with its store:               *)
(*   - SpeechToTextService (src/src/services/speechToTextService.ts):      *)
(*     the playback-based file transcription with its two strategies, and  *)
(*     the real-time session mirrored by the recorder store;               *)
(*   - TrueOfflineTranscriptionService                                     *)
(*     (src/src/services/trueOfflineTranscriptionService.ts): validation   *)
(*     and the recognition session on the service's shared recognizer;     *)
(*   - WhisperTranscriptionService                                         *)
(*     (src/src/services/whisperTranscriptionService.ts): validation and   *)
(*     the remote request;                                                 *)
(*   - OfflineTranscriptionService                                         *)
(*     (src/src/services/offlineTranscriptionService.ts): the recognition  *)
(*     session fed by the internal playback of the clip;                   *)
(*   - CleanTranscriptionService                                           *)
(*     (src/src/services/cleanTranscriptionService.ts): validation,        *)
(*     analysis, the choice of a strategy and the recognition session;     *)
(*   - the offscreen document (src/src/offscreen.ts): the MediaRecorder,   *)
(*     the commands START/PAUSE/RESUME/STOP_RECORDING, and the acquisition *)
(*     of the recorded stream in each audio source mode;                   *)
(*   - the background service worker (src/unnamed/part_002):               *)
(*     OPEN_OFFSCREEN and the creation of the offscreen document;          *)
(*   - GoogleDriveService.saveSession                                      *)
(*     (src/src/services/googleDriveService.ts): validation and the three  *)
(*     requests of a saved session;                                        *)
(*   - the side panel (src/src/components/SidePanel.tsx) with the store    *)
(*     (useRecorderStore.ts): the recording handlers, the timer, the       *)
(*     automatic transcription and the upload to Google Drive              *)
(*     (src/src/services/googleDriveService.ts).                           *)
(* Text is a sequence of one-character strings; an error message is a      *)
(* sequence of its parts. Each handler of the code is one action; the      *)
(* continuation of an await runs in the action that settles the promise    *)
(* (a microtask runs before the next event is delivered).                  *)
(***************************************************************************)
EXTENDS Integers, Sequences, FiniteSets, TLC

\* ------------------------------------------------------------------ bounds

\* Result events the engine delivers in one recognition session.
MaxResults == 1

\* ------------------------------------------------------------------ text

\* The characters String.prototype.trim removes and the class \s matches:
\* the space and, standing for every other one, the line feed.
WhiteSpace == { " ", "\n" }

RECURSIVE TrimLeft(_)
TrimLeft(s) ==
  IF s = <<>> THEN s
  ELSE IF Head(s) \in WhiteSpace THEN TrimLeft(Tail(s)) ELSE s

RECURSIVE TrimRight(_)
TrimRight(s) ==
  IF s = <<>> THEN s
  ELSE IF s[Len(s)] \in WhiteSpace
         THEN TrimRight(SubSeq(s, 1, Len(s) - 1))
         ELSE s

\* String.prototype.trim
Trim(s) == TrimRight(TrimLeft(s))

\* The transcripts the engine reports: speech, and a blank.
Transcripts == { <<"a">>, <<" ">> }

\* The confidences the engine reports, in hundredths (0: not reported).
Confidences == { 0, 90 }

\* One SpeechRecognitionResult: its first alternative and its finality.
EngineResults ==
  [isFinal : BOOLEAN, transcript : Transcripts, confidence : Confidences]

\* The results an engine delivers when configured with `interimResults`.
ResultsFor(interimResults) ==
  { r \in EngineResults : r.isFinal \/ interimResults }

\* The results delivered to the strategies of SpeechToTextService, whose
\* recognizers run with interimResults = false.
SttResults == { r \in ResultsFor(FALSE) : r.confidence = 90 }

\* SpeechRecognitionErrorEvent.error
ErrorCodes == { "no-speech", "audio-capture", "not-allowed", "network" }

\* The permission-denied engine errors.
PermissionCodes == { "audio-capture", "not-allowed" }

NoResult == [fullText |-> <<>>, segments |-> <<>>]
NoError == <<>>

VARIABLES
  \* SpeechToTextService.transcribeAudioFile (one call)
  sttPc,       \* "idle" | "analysing" | "running" | "resolved" | "rejected"
  sttClip,     \* audioBlob
  sttSource,   \* audioSource
  sttCtx,      \* the audio context of the pre-check: "none" | "open" | "closed"
  sttI,        \* the strategy the loop of attemptSpeechRecognition awaits
  sttRec,      \* per strategy: its recognizer's session
  sttPromise,  \* per strategy: "none" | "pending" | "resolved" | "rejected"
  sttVal,      \* per strategy: the result its promise resolved with
  sttErr,      \* per strategy: the message its promise rejected with
  sttFinal,    \* per strategy: finalTranscript
  sttSegs,     \* per strategy: segments
  sttSeen,     \* per strategy: result events delivered
  sttAudio,    \* strategy 1's audio element
  sttUrl,      \* strategy 1's object URL: "none" | "live" | "revoked"
  sttTimers,   \* per strategy: the pending setTimeout callbacks
  sttResult,   \* what the call resolved with
  sttError     \* what the call rejected with

sttVars ==
  << sttPc, sttClip, sttSource, sttCtx, sttI, sttRec, sttPromise, sttVal, sttErr, sttFinal, sttSegs,
     sttSeen, sttAudio, sttUrl, sttTimers, sttResult, sttError >>

VARIABLES
  \* TrueOfflineTranscriptionService: the shared recognizer
  toRec,       \* this.recognition's session: "idle" | "listening" | "stopping"
               \*   | "aborting" | "errored"
  toOwner,     \* the call whose closure this.recognition's handlers belong to
  toSession,   \* the call whose start() began the current session (0: none)
  toSeen,      \* result events delivered in the current session
  \* TrueOfflineTranscriptionService.transcribeAudioFile, per call
  toPc,        \* "idle" | "validating" | "processing" | "recognizing"
               \*   | "resolved" | "rejected"
  toClip,      \* audioBlob
  toSource,    \* audioSource
  toPromise,   \* the promise of transcribeVirtualStream
  toFinal,     \* finalTranscript
  toSegs,      \* segments
  toConfSum,   \* confidenceSum
  toSegCount,  \* segmentCount
  toTimer,     \* the auto-stop setTimeout is pending
  toTracks,    \* the virtual stream's tracks: "none" | "live" | "stopped"
  toResult,    \* what the call resolved with
  toError,     \* what the call rejected with
  toCancelled, \* the calls whose recognition was pending when cleanup() was called,
  toCtx        \* per call: the audio context of validateAudioFile:
               \*   "none" | "open" | "closed"

toVars ==
  << toRec, toOwner, toSession, toSeen, toPc, toClip, toSource, toPromise,
     toFinal, toSegs, toConfSum, toSegCount, toTimer, toTracks, toResult,
     toError, toCancelled, toCtx >>

VARIABLES
  \* WhisperTranscriptionService.transcribeAudioFile (one call)
  whPc,        \* "idle" | "validating" | "fetching" | "measuring"
               \*   | "resolved" | "rejected"
  whClip,      \* audioBlob
  whSource,    \* audioSource
  whKey,       \* options.apiKey was given
  whStored,    \* localStorage holds openai_api_key
  whRequests,  \* requests sent to the remote transcription API
  whText,      \* the text of the API's response
  whResult,    \* what the call resolved with
  whError      \* what the call rejected with

whVars ==
  << whPc, whClip, whSource, whKey, whStored, whRequests, whText, whResult, whError >>

VARIABLES
  \* OfflineTranscriptionService.transcribeAudioFile (one call)
  offPc,          \* "idle" | "validating" | "recognizing" | "resolved"
                  \*   | "rejected"
  offClip,        \* audioBlob
  offSource,      \* audioSource
  offRec,         \* this.recognition's session
  offOnend,       \* the handler in recognition.onend:
                  \*   "none" | "resolving" | "clearing"
  offPromise,     \* the promise of transcribeAudioFileDirectly
  offFinal,       \* finalTranscript
  offSegs,        \* segments
  offSeen,        \* results the engine has delivered
  offProcessing,  \* this.isProcessing
  offCtx,         \* this.audioContext: "none" | "open" | "closed"
  offAudio,       \* the audio element
  offUrl,         \* the object URL
  offTimers,      \* pending timers: "playFailed", "ended", "timeout"
  offResult,      \* what the call resolved with
  offError        \* what the call rejected with

offVars ==
  << offPc, offClip, offSource, offRec, offOnend, offPromise, offFinal,
     offSegs, offSeen, offProcessing, offCtx, offAudio, offUrl, offTimers,
     offResult, offError >>

VARIABLES
  \* real-time transcription: SpeechToTextService and the recorder store
  rtRec,            \* this.recognition's session
  rtListening,      \* this.isListening
  rtFinal,          \* this.finalTranscript
  rtInterim,        \* this.interimTranscript
  rtSegs,           \* this.segments
  rtSeen,           \* results the engine has delivered in this session
  rtTranscribing,   \* store.isTranscribing
  rtEnabled,        \* store.realTimeTranscriptionEnabled
  rtTranscription,  \* store.transcription
  rtInterimShown,   \* store.interimTranscription
  rtPolls,          \* poll intervals that have not been cleared
  rtStopped,        \* stopRealTimeTranscription has called stop() since reset()
  rtReturned,       \* the result it returned
  rtError           \* what the last startRealTimeTranscription threw

rtVars ==
  << rtRec, rtListening, rtFinal, rtInterim, rtSegs, rtSeen, rtTranscribing,
     rtEnabled, rtTranscription, rtInterimShown, rtPolls, rtStopped,
     rtReturned, rtError >>

VARIABLES
  \* the side panel's automatic transcription of a finished recording
  spPc,             \* "transcribing" while the call awaits the service
  spResult,         \* autoTranscriptionResult's fullText
  spHasResult,      \* autoTranscriptionResult is not null
  spNotes,          \* the transcriptions appended to currentSession.notes
  spError,          \* autoTranscriptionError
  spClosure,        \* currentSession.notes as the running call's closure holds it
  spReset           \* the session was reset while the call awaited the service

spVars ==
  << spPc, spResult, spHasResult, spNotes, spError, spClosure, spReset >>

VARIABLES
  \* the cleaning of a transcription text, applied on its own
  clnPc,            \* "new", "cleaned", "again"
  clnText,          \* the text given to the cleaning
  clnCleaned,       \* the text it produced
  clnAgain          \* the text it produced from that text

clnVars == << clnPc, clnText, clnCleaned, clnAgain >>

VARIABLES
  \* CleanTranscriptionService.transcribeAudioFile
  ctsPc,            \* position of the call
  ctsClip,          \* audioBlob
  ctsSource,        \* audioSource
  ctsAnalysis,      \* audioAnalysis
  ctsStrategy,      \* strategy
  ctsAttempts,      \* the strategies whose method ran a playback, in order
  ctsRec,           \* the session of the playback's recognizer
  ctsPromise,       \* the promise of transcribeWithDirectPlayback
  ctsFinal,         \* finalTranscript
  ctsSegs,          \* segments
  ctsSeen,          \* results the engine has delivered
  ctsAudio,         \* the audio element
  ctsTimer,         \* the stop timer armed when the audio ended
  ctsResult,        \* what the call resolved with
  ctsError          \* what the call threw

ctsVars ==
  << ctsPc, ctsClip, ctsSource, ctsAnalysis, ctsStrategy, ctsAttempts, ctsRec,
     ctsPromise, ctsFinal, ctsSegs, ctsSeen, ctsAudio, ctsTimer, ctsResult,
     ctsError >>

VARIABLES
  \* the offscreen document's recorder (src/src/offscreen.ts)
  mediaRecorder,    \* the current MediaRecorder, 0 for null
  audioChunks,      \* for each chunk collected, the recorder that emitted it
  osState,          \* each recorder's state, "none" before it is created
  osMime,           \* each recorder's mimeType
  osOnstop,         \* each recorder's onstop handler
  osTracks,         \* the media tracks captured for each recorder
  osStopping,       \* stop() was called and its task has not run yet
  osStart,          \* "acquiring" while startRecording awaits the streams
  osSupported,      \* the types MediaRecorder.isTypeSupported accepts
  osResponse        \* the last response sent

osVars ==
  << mediaRecorder, audioChunks, osState, osMime, osOnstop, osTracks,
     osStopping, osStart, osSupported, osResponse >>

VARIABLES
  \* the recorder store and the side panel's recording handlers
  isRecording,      \* store.isRecording
  isPaused,         \* store.isPaused
  recordingTime,    \* store.recordingTime
  audioBlob,        \* store.currentSession.audioBlob
  pnPc,             \* the await the panel's handler is at, or "idle"
  pnHandled,        \* the command whose response was handled last
  pnResetTimer,     \* the reset timer armed by a successful save
  pnDriveFile       \* the audio file uploaded last

pnVars ==
  << isRecording, isPaused, recordingTime, audioBlob, pnPc, pnHandled,
     pnResetTimer, pnDriveFile >>

VARIABLES
  \* startRecording of the offscreen document: the acquisition of the stream
  aqPc,             \* the await startRecording is at, "recording" or "failed"
  aqSource,         \* audioSource
  aqMicrophoneId,   \* microphoneId
  aqSystemStream,   \* systemStream of the 'both' branch: "null" | "stream"
  aqSystemTracks,   \* readyState of its audio tracks: "none" | "live" | "ended"
  aqMicStream,      \* the device micStream captures from, or "null"
  aqTracks,         \* the tracks of combinedStream
  aqError           \* what the last startRecording that returned threw

aqVars ==
  << aqPc, aqSource, aqMicrophoneId, aqSystemStream, aqSystemTracks,
     aqMicStream, aqTracks, aqError >>

VARIABLES
  \* GoogleDriveService.saveSession (one call at a time)
  drvStep,          \* "idle" | "validating" | "createFolder" | "uploadAudio"
                    \*   | "uploadNotes" | "done": the step the call is at
  drvPromise,       \* "none" | "pending" | "resolved" | "rejected"
  drvName,          \* name
  drvBlob,          \* audioBlob
  drvRequests,      \* the requests sent to the Drive API by this call
  drvError          \* what the call threw

drvVars ==
  << drvStep, drvPromise, drvName, drvBlob, drvRequests, drvError >>

VARIABLES
  \* the background service worker: OPEN_OFFSCREEN
  bgPc,             \* per request: "idle" | "getContexts" | "createDocument"
                    \*   | "answered"
  bgDocuments,      \* offscreen documents that exist
  bgCreated,        \* offscreen documents created so far
  bgResponse        \* per request: the response sent

bgVars == << bgPc, bgDocuments, bgCreated, bgResponse >>

vars ==
  << sttVars, toVars, whVars, offVars, rtVars, spVars, clnVars, ctsVars,
     osVars, pnVars, aqVars, drvVars, bgVars >>

sttOthers ==
  << toVars, whVars, offVars, rtVars, spVars, clnVars, ctsVars, osVars,
     pnVars, aqVars, drvVars, bgVars >>
toOthers ==
  << sttVars, whVars, offVars, rtVars, spVars, clnVars, ctsVars, osVars,
     pnVars, aqVars, drvVars, bgVars >>
whOthers ==
  << sttVars, toVars, offVars, rtVars, spVars, clnVars, ctsVars, osVars,
     pnVars, aqVars, drvVars, bgVars >>
offOthers ==
  << sttVars, toVars, whVars, rtVars, spVars, clnVars, ctsVars, osVars,
     pnVars, aqVars, drvVars, bgVars >>
rtOthers ==
  << sttVars, toVars, whVars, offVars, spVars, clnVars, ctsVars, osVars,
     pnVars, aqVars, drvVars, bgVars >>
spOthers ==
  << sttVars, toVars, whVars, offVars, rtVars, clnVars, ctsVars, osVars,
     pnVars, aqVars, drvVars, bgVars >>
clnOthers ==
  << sttVars, toVars, whVars, offVars, rtVars, spVars, ctsVars, osVars,
     pnVars, aqVars, drvVars, bgVars >>
ctsOthers ==
  << sttVars, toVars, whVars, offVars, rtVars, spVars, clnVars, osVars,
     pnVars, aqVars, drvVars, bgVars >>
osOthers ==
  << sttVars, toVars, whVars, offVars, rtVars, spVars, clnVars, ctsVars,
     pnVars, aqVars, drvVars, bgVars >>
pnOthers ==
  << sttVars, toVars, whVars, offVars, rtVars, spVars, clnVars, ctsVars,
     osVars, aqVars, drvVars, bgVars >>
aqOthers ==
  << sttVars, toVars, whVars, offVars, rtVars, spVars, clnVars, ctsVars,
     osVars, pnVars, drvVars, bgVars >>
drvOthers ==
  << sttVars, toVars, whVars, offVars, rtVars, spVars, clnVars, ctsVars,
     osVars, pnVars, aqVars, bgVars >>
bgOthers ==
  << sttVars, toVars, whVars, offVars, rtVars, spVars, clnVars, ctsVars,
     osVars, pnVars, aqVars, drvVars >>
pnosOthers ==
  << sttVars, toVars, whVars, offVars, rtVars, spVars, clnVars, ctsVars,
     aqVars, drvVars, bgVars >>

\* ------------------------------------------------------------------
\* Audio clips

\* A clip: whether decodeAudioData accepts it, the decoded duration in
\* milliseconds (0 when it does not decode) and blob.size in bytes.
Durations == { 499, 500, 180001 }
Sizes == { 25000000, 25000001 }

Clips ==
  [decodes : { TRUE }, duration : Durations, size : Sizes]
    \cup [decodes : { FALSE }, duration : { 0 }, size : Sizes]

NoClip == [decodes |-> FALSE, duration |-> 0, size |-> 0]

AudioSources == { "microphone", "system", "both" }

\* The message of the exception decodeAudioData throws.
DecodeError == << "Unable to decode audio data" >>

\* ------------------------------------------------------------------
\* SpeechToTextService: file transcription by playback

NumStrategies == 2
Strategies == 1 .. NumStrategies

\* A session that can still deliver events.
Live(rec) == rec \in { "listening", "stopping", "errored" }

\* getRecognitionErrorMessage
getRecognitionErrorMessage(error) ==
  CASE error = "no-speech" ->
         << "No speech detected in the audio. Please record clear, audible speech." >>
    [] error = "audio-capture" ->
         << "Microphone access denied. Please allow microphone access when prompted." >>
    [] error = "not-allowed" ->
         << "Microphone permission denied. Please allow microphone access." >>
    [] error = "network" ->
         << "Network error. Please check your internet connection." >>
    [] error = "service-not-allowed" ->
         << "Speech recognition service not available. Please try again." >>
    [] error = "aborted" ->
         << "Speech recognition was aborted. Please try again." >>
    [] error = "language-not-supported" ->
         << "Language not supported. Please ensure you selected Indonesian or English." >>
    [] OTHER ->
         << "Speech recognition error: ", error,
            ". Please try recording again with clearer speech." >>

STT_NoSpeech ==
  << "No speech detected. Please record clear speech and try again." >>

STT_AllFailed == << "All transcription strategies failed" >>

\* The catch of transcribeAudioFile: the tips and the technical error.
STT_wrap(message, audioSource) ==
  << "Speech transcription failed. Please try the following:",
     IF audioSource = "system"
       THEN "System Audio: Ensure audio was playing during recording; Share Audio: Check \"Share audio\" was selected in screen sharing"
       ELSE "Microphone: Verify your microphone is working properly",
     "Technical error: " >> \o message

\* `audioBuffer.duration < 1` of transcribeWithSpeechPlayback, in milliseconds
STT_MinDuration == 1000

\* The clips given to SpeechToTextService: around the pre-check's minimum, and
\* one that does not decode.
STT_Clips ==
  { clip \in [decodes : BOOLEAN, duration : { 0, 999, 1000 }, size : { 25000000 }] :
      clip.decodes <=> clip.duration # 0 }

\* The pre-check of transcribeWithSpeechPlayback throws: decodeAudioData
\* rejects, or the clip is shorter than a second.
STT_precheckThrows(clip) ==
  ~clip.decodes \/ clip.duration < STT_MinDuration

\* What the call was given, and the audio context of its pre-check.
sttCall == << sttClip, sttSource, sttCtx >>

\* recognition.onresult of a strategy: only final results are kept.
STT_onresultFinal(finalTranscript, r) ==
  IF r.isFinal THEN finalTranscript \o r.transcript \o <<" ">>
  ELSE finalTranscript

STT_onresultSegs(segments, r) ==
  IF r.isFinal
    THEN Append(segments, [text |-> r.transcript, confidence |-> r.confidence])
    ELSE segments

\* `if (result.fullText.trim())` of attemptSpeechRecognition
STT_isSuccess(result) == Trim(result.fullText) # <<>>

STT_rethrowsAlways(i) == TRUE

STT_rethrowsNever(i) == FALSE

\* `if (i === strategies.length - 1) throw error` of attemptSpeechRecognition
STT_rethrows(i) == i = NumStrategies

\* recognition.stop()
Stopped(rec) == IF rec = "listening" THEN "stopping" ELSE rec

STT_Init ==
  /\ sttPc = "idle"
  /\ sttClip = NoClip
  /\ sttSource = ""
  /\ sttCtx = "none"
  /\ sttI = 0
  /\ sttRec = [s \in Strategies |-> "new"]
  /\ sttPromise = [s \in Strategies |-> "none"]
  /\ sttVal = [s \in Strategies |-> NoResult]
  /\ sttErr = [s \in Strategies |-> NoError]
  /\ sttFinal = [s \in Strategies |-> <<>>]
  /\ sttSegs = [s \in Strategies |-> <<>>]
  /\ sttSeen = [s \in Strategies |-> 0]
  /\ sttAudio = "none"
  /\ sttUrl = "none"
  /\ sttTimers = [s \in Strategies |-> {}]
  /\ sttResult = NoResult
  /\ sttError = NoError

\* transcribeAudioFile up to the first await of transcribeWithSpeechPlayback:
\* the pre-check opens an audio context and decodes the clip.
STT_transcribeAudioFile(clip, audioSource) ==
  /\ UNCHANGED sttOthers
  /\ sttPc = "idle"
  /\ sttPc' = "analysing"
  /\ sttClip' = clip
  /\ sttSource' = audioSource
  /\ sttCtx' = "open"
  /\ UNCHANGED << sttI, sttRec, sttPromise, sttVal, sttErr, sttFinal, sttSegs,
                  sttSeen, sttAudio, sttUrl, sttTimers, sttResult, sttError >>

\* The pre-check ends: what it throws is caught and logged, and the context is
\* closed only when nothing was thrown.  Then attemptSpeechRecognition runs up
\* to its first await: the executor of transcribeWithAudioElement starts its
\* recognizer and the playback.
STT_analysed ==
  /\ UNCHANGED sttOthers
  /\ sttPc = "analysing"
  /\ sttCtx' = IF STT_precheckThrows(sttClip) THEN sttCtx ELSE "closed"
  /\ sttPc' = "running"
  /\ sttI' = 1
  /\ sttRec' = [sttRec EXCEPT ![1] = "listening"]
  /\ sttPromise' = [sttPromise EXCEPT ![1] = "pending"]
  /\ sttAudio' = "starting"
  /\ sttUrl' = "live"
  /\ UNCHANGED << sttClip, sttSource, sttVal, sttErr, sttFinal, sttSegs,
                  sttSeen, sttTimers, sttResult, sttError >>

\* The promise of strategy s settles (ok: resolved with val, else rejected with
\* err) and the loop of attemptSpeechRecognition goes on: it returns the result,
\* rethrows, or starts the next strategy (transcribeWithAudioBuffer, which starts
\* its recognizer and arms its 10 s timer). rec1 is sttRec after the handler.
STT_settle(s, ok, val, err, rec1) ==
  LET prom1 == [sttPromise EXCEPT ![s] = IF ok THEN "resolved" ELSE "rejected"]
  IN
  /\ sttVal' = [sttVal EXCEPT ![s] = IF ok THEN val ELSE @]
  /\ sttErr' = [sttErr EXCEPT ![s] = IF ok THEN @ ELSE err]
  /\ IF ok /\ STT_isSuccess(val)
       THEN /\ sttPc' = "resolved"
            /\ sttResult' = val
            /\ sttRec' = rec1
            /\ sttPromise' = prom1
            /\ UNCHANGED << sttI, sttTimers, sttError >>
     ELSE IF ~ok /\ STT_rethrows(s)
       THEN /\ sttPc' = "rejected"
            /\ sttError' = STT_wrap(err, sttSource)
            /\ sttRec' = rec1
            /\ sttPromise' = prom1
            /\ UNCHANGED << sttI, sttTimers, sttResult >>
     ELSE IF s = NumStrategies
       THEN /\ sttPc' = "rejected"
            /\ sttError' = STT_wrap(STT_AllFailed, sttSource)
            /\ sttRec' = rec1
            /\ sttPromise' = prom1
            /\ UNCHANGED << sttI, sttTimers, sttResult >>
     ELSE /\ sttI' = s + 1
          /\ sttRec' = [rec1 EXCEPT ![s + 1] = "listening"]
          /\ sttPromise' = [prom1 EXCEPT ![s + 1] = "pending"]
          /\ sttTimers' = [sttTimers EXCEPT ![s + 1] = { "timeout" }]
          /\ UNCHANGED << sttPc, sttResult, sttError >>

\* A handler that settles nothing: the promise of s is already settled.
STT_noSettle(rec1) ==
  /\ sttRec' = rec1
  /\ UNCHANGED << sttPc, sttI, sttPromise, sttVal, sttErr, sttTimers,
                  sttResult, sttError >>

\* recognition.onresult of strategy s (interimResults is false)
STT_onresult(s, r) ==
  /\ UNCHANGED << sttOthers, sttCall >>
  /\ sttRec[s] \in { "listening", "stopping" }
  /\ sttSeen[s] < MaxResults
  /\ sttSeen' = [sttSeen EXCEPT ![s] = @ + 1]
  /\ sttFinal' = [sttFinal EXCEPT ![s] = STT_onresultFinal(@, r)]
  /\ sttSegs' = [sttSegs EXCEPT ![s] = STT_onresultSegs(@, r)]
  /\ UNCHANGED << sttPc, sttI, sttRec, sttPromise, sttVal, sttErr, sttAudio,
                  sttUrl, sttTimers, sttResult, sttError >>

\* recognition.onerror of strategy s; the engine fires end after it.
STT_onerror(s, code) ==
  /\ UNCHANGED << sttOthers, sttCall >>
  /\ sttRec[s] \in { "listening", "stopping" }
  /\ sttUrl' = IF s = 1 THEN "revoked" ELSE sttUrl
  /\ LET rec1 == [sttRec EXCEPT ![s] = "errored"] IN
     IF sttPromise[s] = "pending"
       THEN STT_settle(s, FALSE, NoResult, getRecognitionErrorMessage(code), rec1)
       ELSE STT_noSettle(rec1)
  /\ UNCHANGED << sttFinal, sttSegs, sttSeen, sttAudio >>

\* recognition.onend of strategy s
STT_onend(s) ==
  /\ UNCHANGED << sttOthers, sttCall >>
  /\ Live(sttRec[s])
  /\ sttUrl' = IF s = 1 THEN "revoked" ELSE sttUrl
  /\ LET rec1 == [sttRec EXCEPT ![s] = "ended"]
         result == [fullText |-> Trim(sttFinal[s]), segments |-> sttSegs[s]]
     IN
     IF sttPromise[s] = "pending"
       THEN IF Trim(sttFinal[s]) = <<>>
              THEN STT_settle(s, FALSE, NoResult, STT_NoSpeech, rec1)
              ELSE STT_settle(s, TRUE, result, NoError, rec1)
       ELSE STT_noSettle(rec1)
  /\ UNCHANGED << sttFinal, sttSegs, sttSeen, sttAudio >>

\* audio.play() resolves
STT_playStarted ==
  /\ UNCHANGED << sttOthers, sttCall >>
  /\ sttAudio = "starting"
  /\ sttAudio' = "playing"
  /\ UNCHANGED << sttPc, sttI, sttRec, sttPromise, sttVal, sttErr, sttFinal,
                  sttSegs, sttSeen, sttUrl, sttTimers, sttResult, sttError >>

\* audio.play() rejects: setTimeout(() => recognition.stop(), 3000)
STT_playFailed ==
  /\ UNCHANGED << sttOthers, sttCall >>
  /\ sttAudio = "starting"
  /\ sttAudio' = "failed"
  /\ sttTimers' = [sttTimers EXCEPT ![1] = @ \cup { "playFailed" }]
  /\ UNCHANGED << sttPc, sttI, sttRec, sttPromise, sttVal, sttErr, sttFinal,
                  sttSegs, sttSeen, sttUrl, sttResult, sttError >>

\* the audio element's 'ended': setTimeout(() => recognition.stop(), 2000)
STT_audioEnded ==
  /\ UNCHANGED << sttOthers, sttCall >>
  /\ sttAudio = "playing"
  /\ sttAudio' = "ended"
  /\ sttTimers' = [sttTimers EXCEPT ![1] = @ \cup { "ended" }]
  /\ UNCHANGED << sttPc, sttI, sttRec, sttPromise, sttVal, sttErr, sttFinal,
                  sttSegs, sttSeen, sttUrl, sttResult, sttError >>

\* a timer of strategy s fires: recognition.stop()
STT_timer(s, t) ==
  /\ UNCHANGED << sttOthers, sttCall >>
  /\ t \in sttTimers[s]
  /\ sttTimers' = [sttTimers EXCEPT ![s] = @ \ { t }]
  /\ sttRec' = [sttRec EXCEPT ![s] = Stopped(@)]
  /\ UNCHANGED << sttPc, sttI, sttPromise, sttVal, sttErr, sttFinal, sttSegs,
                  sttSeen, sttAudio, sttUrl, sttResult, sttError >>

STT_Next ==
  \/ \E clip \in STT_Clips, audioSource \in AudioSources :
       STT_transcribeAudioFile(clip, audioSource)
  \/ STT_analysed
  \/ \E s \in Strategies, r \in SttResults : STT_onresult(s, r)
  \/ \E s \in Strategies, code \in ErrorCodes : STT_onerror(s, code)
  \/ \E s \in Strategies : STT_onend(s)
  \/ STT_playStarted
  \/ STT_playFailed
  \/ STT_audioEnded
  \/ \E s \in Strategies, t \in { "playFailed", "ended", "timeout" } :
       STT_timer(s, t)

\* ------------------------------------------------------------------
\* TrueOfflineTranscriptionService

\* Overlapping calls of transcribeAudioFile on the singleton.
MaxCalls == 2
Calls == 1 .. MaxCalls

TO_MinDuration == 500
TO_MaxDuration == 180000
TO_MaxSize == 25000000

TO_TooShort ==
  << "Audio too short for transcription (minimum 0.5 seconds required). Please record at least a few seconds of speech." >>
TO_TooLong ==
  << "Audio too long for offline processing (maximum 3 minutes). Consider splitting into shorter segments or using an online service." >>
TO_TooLarge ==
  << "Audio file too large (maximum 25MB). Try using shorter recordings." >>
InvalidFormat == << "Invalid audio format: " >> \o DecodeError

TO_validateNoMinimum(clip) ==
  IF ~clip.decodes
    THEN [isValid |-> FALSE, reason |-> InvalidFormat, duration |-> 0]
  ELSE IF clip.duration > TO_MaxDuration
    THEN [isValid |-> FALSE, reason |-> TO_TooLong, duration |-> 0]
  ELSE IF clip.size > TO_MaxSize
    THEN [isValid |-> FALSE, reason |-> TO_TooLarge, duration |-> 0]
  ELSE [isValid |-> TRUE, reason |-> <<>>, duration |-> clip.duration]

\* validateAudioFile
TO_validateAudioFile(clip) ==
  IF ~clip.decodes
    THEN [isValid |-> FALSE, reason |-> InvalidFormat, duration |-> 0]
  ELSE IF clip.duration < TO_MinDuration
    THEN [isValid |-> FALSE, reason |-> TO_TooShort, duration |-> 0]
  ELSE IF clip.duration > TO_MaxDuration
    THEN [isValid |-> FALSE, reason |-> TO_TooLong, duration |-> 0]
  ELSE IF clip.size > TO_MaxSize
    THEN [isValid |-> FALSE, reason |-> TO_TooLarge, duration |-> 0]
  ELSE [isValid |-> TRUE, reason |-> <<>>, duration |-> clip.duration]

\* `throw new Error(`Audio validation failed: ${validation.reason}`)`
ValidationFailed(reason) ==
  [isError |-> TRUE, message |-> << "Audio validation failed: " >> \o reason]

\* createNoSpeechError
TO_createNoSpeechError(audioSource) ==
  [isError |-> TRUE,
   message |->
     << "NO SPEECH DETECTED IN AUDIO FILE",
        CASE audioSource = "system" -> "SYSTEM AUDIO SPECIFIC"
          [] audioSource = "microphone" -> "MICROPHONE SPECIFIC"
          [] audioSource = "both" -> "COMBINED AUDIO SPECIFIC"
          [] OTHER -> "" >>]

\* createAudioCaptureError
TO_createAudioCaptureError ==
  [isError |-> TRUE, message |-> << "AUDIO CAPTURE PERMISSION ERROR" >>]

\* What recognition.onerror rejects with: an Error for no-speech and
\* audio-capture, the bare string errorMessage otherwise.
TO_onerrorReason(code, audioSource) ==
  IF code = "no-speech" THEN TO_createNoSpeechError(audioSource)
  ELSE IF code = "audio-capture" THEN TO_createAudioCaptureError
  ELSE [isError |-> FALSE, message |-> << "Speech recognition error: ", code >>]

\* The catch around recognition.start()
TO_startFailed ==
  [isError |-> TRUE,
   message |-> << "Failed to start virtual microphone recognition: ",
                  "InvalidStateError" >>]

\* enhanceError
TO_enhanceError(error, audioSource) ==
  (IF error.isError THEN error.message ELSE << "Unknown error occurred" >>)
    \o << CASE audioSource = "system" ->
                 "System Audio Context: Ensure audio was properly captured during recording with \"Share audio\" enabled."
            [] audioSource = "microphone" ->
                 "Microphone Context: Ensure clear speech was recorded with good audio quality."
            [] audioSource = "both" ->
                 "Combined Audio Context: Check if either audio source contains clear speech."
            [] OTHER -> "" >>

\* `bestAlternative.confidence || 0.5`
TO_bestConfidence(r) == IF r.confidence = 0 THEN 50 ELSE r.confidence

\* The test of recognition.onresult: a final result whose transcript is not blank.
TO_keeps(r) == r.isFinal /\ Trim(r.transcript) # <<>>

TO_LowConfidence == 60

\* The result recognition.onend resolves with.
TO_result(c) ==
  LET num == IF toSegCount[c] > 0 THEN toConfSum[c] ELSE 0
      den == IF toSegCount[c] > 0 THEN toSegCount[c] ELSE 1
  IN [fullText |-> Trim(toFinal[c]),
      segments |-> toSegs[c],
      duration |-> TO_validateAudioFile(toClip[c]).duration,
      audioSource |-> toSource[c],
      averageConfidence |-> [num |-> num, den |-> den],
      hasLowConfidence |-> num < TO_LowConfidence * den]

TO_NoResult ==
  [fullText |-> <<>>, segments |-> <<>>, duration |-> 0, audioSource |-> "",
   averageConfidence |-> [num |-> 0, den |-> 1], hasLowConfidence |-> TRUE]

TO_InFlight(c) == toPc[c] \in { "validating", "processing", "recognizing" }

TO_Init ==
  /\ toRec = "idle"
  /\ toOwner = 0
  /\ toSession = 0
  /\ toSeen = 0
  /\ toPc = [c \in Calls |-> "idle"]
  /\ toClip = [c \in Calls |-> NoClip]
  /\ toSource = [c \in Calls |-> ""]
  /\ toPromise = [c \in Calls |-> "none"]
  /\ toFinal = [c \in Calls |-> <<>>]
  /\ toSegs = [c \in Calls |-> <<>>]
  /\ toConfSum = [c \in Calls |-> 0]
  /\ toSegCount = [c \in Calls |-> 0]
  /\ toTimer = [c \in Calls |-> FALSE]
  /\ toTracks = [c \in Calls |-> "none"]
  /\ toResult = [c \in Calls |-> TO_NoResult]
  /\ toError = [c \in Calls |-> NoError]
  /\ toCancelled = {}
  /\ toCtx = [c \in Calls |-> "none"]

\* transcribeAudioFile up to `await this.validateAudioFile(audioBlob)`
TO_transcribeAudioFile(c, clip, audioSource) ==
  /\ UNCHANGED toOthers
  /\ toPc[c] = "idle"
  /\ toPc' = [toPc EXCEPT ![c] = "validating"]
  /\ toClip' = [toClip EXCEPT ![c] = clip]
  /\ toSource' = [toSource EXCEPT ![c] = audioSource]
  /\ toCtx' = [toCtx EXCEPT ![c] = "open"]
  /\ UNCHANGED << toRec, toOwner, toSession, toSeen, toPromise, toFinal,
                  toSegs, toConfSum, toSegCount, toTimer, toTracks, toResult,
                  toError, toCancelled >>

\* validateAudioFile returns; it has closed its audio context only if the clip
\* is valid.  An invalid clip is thrown, caught and rethrown by enhanceError; a
\* valid one goes on to processAudioFileDirectly.
TO_validated(c) ==
  /\ UNCHANGED toOthers
  /\ toPc[c] = "validating"
  /\ LET validation == TO_validateAudioFile(toClip[c]) IN
     IF validation.isValid
       THEN /\ toPc' = [toPc EXCEPT ![c] = "processing"]
            /\ toCtx' = [toCtx EXCEPT ![c] = "closed"]
            /\ UNCHANGED toError
       ELSE /\ toPc' = [toPc EXCEPT ![c] = "rejected"]
            /\ toError' = [toError EXCEPT ![c] =
                 TO_enhanceError(ValidationFailed(validation.reason), toSource[c])]
            /\ UNCHANGED toCtx
  /\ UNCHANGED << toRec, toOwner, toSession, toSeen, toClip, toSource,
                  toPromise, toFinal, toSegs, toConfSum, toSegCount, toTimer,
                  toTracks, toResult, toCancelled >>

\* processAudioFileDirectly has decoded the clip and built the virtual stream:
\* the executor of transcribeVirtualStream installs its handlers on
\* this.recognition and calls start(), which throws when a session is active;
\* otherwise the auto-stop timer is armed.
TO_transcribeVirtualStream(c) ==
  /\ UNCHANGED << toOthers, toCtx >>
  /\ toPc[c] = "processing"
  /\ toOwner' = c
  /\ toFinal' = [toFinal EXCEPT ![c] = <<>>]
  /\ toSegs' = [toSegs EXCEPT ![c] = <<>>]
  /\ toConfSum' = [toConfSum EXCEPT ![c] = 0]
  /\ toSegCount' = [toSegCount EXCEPT ![c] = 0]
  /\ IF toRec = "idle"
       THEN /\ toRec' = "listening"
            /\ toSession' = c
            /\ toSeen' = 0
            /\ toPc' = [toPc EXCEPT ![c] = "recognizing"]
            /\ toPromise' = [toPromise EXCEPT ![c] = "pending"]
            /\ toTimer' = [toTimer EXCEPT ![c] = TRUE]
            /\ toTracks' = [toTracks EXCEPT ![c] = "live"]
            /\ UNCHANGED toError
       ELSE /\ toPc' = [toPc EXCEPT ![c] = "rejected"]
            /\ toPromise' = [toPromise EXCEPT ![c] = "rejected"]
            /\ toTracks' = [toTracks EXCEPT ![c] = "stopped"]
            /\ toError' = [toError EXCEPT ![c] =
                 TO_enhanceError(TO_startFailed, toSource[c])]
            /\ UNCHANGED << toRec, toSession, toSeen, toTimer >>
  /\ UNCHANGED << toClip, toSource, toResult, toCancelled >>

\* this.recognition.onresult: the handler of the call that installed it last
TO_onresult(r) ==
  /\ UNCHANGED << toOthers, toCtx >>
  /\ toRec \in { "listening", "stopping" }
  /\ toSeen < MaxResults
  /\ toSeen' = toSeen + 1
  /\ LET c == toOwner IN
     IF TO_keeps(r)
       THEN /\ toFinal' = [toFinal EXCEPT ![c] = @ \o Trim(r.transcript) \o <<" ">>]
            /\ toSegs' = [toSegs EXCEPT ![c] = Append(@,
                 [text |-> Trim(r.transcript),
                  timestamp |-> IF toSegCount[c] > 0
                                  THEN toSegs[c][Len(toSegs[c])].timestamp + 2
                                  ELSE 0,
                  confidence |-> TO_bestConfidence(r),
                  isFinal |-> TRUE])]
            /\ toConfSum' = [toConfSum EXCEPT ![c] = @ + TO_bestConfidence(r)]
            /\ toSegCount' = [toSegCount EXCEPT ![c] = @ + 1]
       ELSE UNCHANGED << toFinal, toSegs, toConfSum, toSegCount >>
  /\ UNCHANGED << toRec, toOwner, toSession, toPc, toClip, toSource,
                  toPromise, toTimer, toTracks, toResult, toError, toCancelled >>

\* this.recognition.onerror: stops the tracks and rejects; the rejection goes
\* through processAudioFileDirectly to the catch of transcribeAudioFile.
TO_onerror(code) ==
  /\ UNCHANGED << toOthers, toCtx >>
  /\ \/ toRec \in { "listening", "stopping" } /\ code \in ErrorCodes
     \/ toRec = "aborting" /\ code = "aborted"
  /\ toRec' = "errored"
  /\ LET c == toOwner IN
     /\ toTracks' = [toTracks EXCEPT ![c] = "stopped"]
     /\ IF toPromise[c] = "pending"
          THEN /\ toPromise' = [toPromise EXCEPT ![c] = "rejected"]
               /\ toPc' = [toPc EXCEPT ![c] = "rejected"]
               /\ toError' = [toError EXCEPT ![c] =
                    TO_enhanceError(TO_onerrorReason(code, toSource[c]), toSource[c])]
          ELSE UNCHANGED << toPromise, toPc, toError >>
  /\ UNCHANGED << toOwner, toSession, toSeen, toClip, toSource, toFinal,
                  toSegs, toConfSum, toSegCount, toTimer, toResult, toCancelled >>

\* this.recognition.onend: stops the tracks and resolves with the assembled
\* result; transcribeAudioFile returns it.
TO_onend ==
  /\ UNCHANGED << toOthers, toCtx >>
  /\ toRec \in { "listening", "stopping", "aborting", "errored" }
  /\ toRec' = "idle"
  /\ toSession' = 0
  /\ LET c == toOwner IN
     /\ toTracks' = [toTracks EXCEPT ![c] = "stopped"]
     /\ IF toPromise[c] = "pending"
          THEN /\ toPromise' = [toPromise EXCEPT ![c] = "resolved"]
               /\ toPc' = [toPc EXCEPT ![c] = "resolved"]
               /\ toResult' = [toResult EXCEPT ![c] = TO_result(c)]
          ELSE UNCHANGED << toPromise, toPc, toResult >>
  /\ UNCHANGED << toOwner, toSeen, toClip, toSource, toFinal, toSegs,
                  toConfSum, toSegCount, toTimer, toError, toCancelled >>

\* the auto-stop timer of call c fires: this.recognition.stop()
TO_timer(c) ==
  /\ UNCHANGED << toOthers, toCtx >>
  /\ toTimer[c]
  /\ toTimer' = [toTimer EXCEPT ![c] = FALSE]
  /\ toRec' = Stopped(toRec)
  /\ UNCHANGED << toOwner, toSession, toSeen, toPc, toClip, toSource,
                  toPromise, toFinal, toSegs, toConfSum, toSegCount, toTracks,
                  toResult, toError, toCancelled >>

\* recognition.abort()
Aborted(rec) == IF rec \in { "listening", "stopping" } THEN "aborting" ELSE rec

\* cleanup(), called while a transcription is in flight: abort() and stop()
TO_cleanup ==
  /\ UNCHANGED << toOthers, toCtx >>
  /\ \E c \in Calls : TO_InFlight(c)
  /\ toRec' = Stopped(Aborted(toRec))
  /\ toCancelled' = toCancelled \cup { c \in Calls : toPromise[c] = "pending" }
  /\ UNCHANGED << toOwner, toSession, toSeen, toPc, toClip, toSource,
                  toPromise, toFinal, toSegs, toConfSum, toSegCount, toTimer,
                  toTracks, toResult, toError >>

\* The results delivered to this.recognition, which runs with
\* interimResults = false.
TO_Results == ResultsFor(FALSE)

TO_Step(c) ==
  \/ \E clip \in Clips, audioSource \in AudioSources :
       TO_transcribeAudioFile(c, clip, audioSource)
  \/ TO_validated(c)
  \/ TO_transcribeVirtualStream(c)
  \/ TO_timer(c)

TO_Next ==
  \/ \E c \in Calls : TO_Step(c)
  \/ \E r \in TO_Results : TO_onresult(r)
  \/ \E code \in ErrorCodes \cup { "aborted" } : TO_onerror(code)
  \/ TO_onend
  \/ TO_cleanup

\* ------------------------------------------------------------------
\* WhisperTranscriptionService

WH_MinDuration == 500
WH_MaxDuration == 600000
WH_MaxSize == 25000000

WH_TooShort ==
  << "Audio too short for transcription (minimum 0.5 seconds required). Please record at least a few seconds of speech." >>
WH_TooLong ==
  << "Audio too long for single API call (maximum 10 minutes). Consider splitting into shorter segments or using real-time transcription during recording." >>
WH_TooLarge ==
  << "Audio file too large (maximum 25MB). Try using shorter recordings." >>

\* getAudioDuration: a clip that does not decode has duration 0.
WH_getAudioDuration(clip) == IF clip.decodes THEN clip.duration ELSE 0

\* validateAudioFile
WH_validateAudioFile(clip) ==
  LET duration == WH_getAudioDuration(clip) IN
  IF duration < WH_MinDuration
    THEN [isValid |-> FALSE, reason |-> WH_TooShort, duration |-> 0]
  ELSE IF duration > WH_MaxDuration
    THEN [isValid |-> FALSE, reason |-> WH_TooLong, duration |-> 0]
  ELSE IF clip.size > WH_MaxSize
    THEN [isValid |-> FALSE, reason |-> WH_TooLarge, duration |-> 0]
  ELSE [isValid |-> TRUE, reason |-> <<>>, duration |-> duration]

\* createAPIKeyError
WH_NoKey == << "NO OPENAI API KEY CONFIGURED" >>

\* `OpenAI API error (${response.status}): ...`
WH_ApiError == << "OpenAI API error (", "401", "): ", "Unauthorized" >>

\* The text of a successful response of the API.
WH_Texts == { <<>>, <<"a">> }

WH_NoResult == [fullText |-> <<>>, segments |-> <<>>, duration |-> 0]

WH_Init ==
  /\ whPc = "idle"
  /\ whClip = NoClip
  /\ whSource = ""
  /\ whKey = FALSE
  /\ whStored = FALSE
  /\ whRequests = 0
  /\ whText = <<>>
  /\ whResult = WH_NoResult
  /\ whError = NoError

\* transcribeAudioFile up to `await this.validateAudioFile(audioBlob)`
WH_transcribeAudioFile(clip, audioSource, apiKey) ==
  /\ UNCHANGED whOthers
  /\ whPc = "idle"
  /\ whPc' = "validating"
  /\ whClip' = clip
  /\ whSource' = audioSource
  /\ whKey' = apiKey
  /\ UNCHANGED << whStored, whRequests, whText, whResult, whError >>

\* validateAudioFile returns: an invalid clip and a missing key are thrown (the
\* catch rethrows the error as it is); otherwise the key is stored and the
\* request is sent.
WH_validated ==
  /\ UNCHANGED whOthers
  /\ whPc = "validating"
  /\ LET audioValidation == WH_validateAudioFile(whClip) IN
     IF ~audioValidation.isValid
       THEN /\ whPc' = "rejected"
            /\ whError' = ValidationFailed(audioValidation.reason).message
            /\ UNCHANGED << whStored, whRequests >>
     ELSE IF ~whKey /\ ~whStored
       THEN /\ whPc' = "rejected"
            /\ whError' = WH_NoKey
            /\ UNCHANGED << whStored, whRequests >>
     ELSE /\ whPc' = "fetching"
          /\ whStored' = TRUE
          /\ whRequests' = whRequests + 1
          /\ UNCHANGED whError
  /\ UNCHANGED << whClip, whSource, whKey, whText, whResult >>

\* the response arrives: !response.ok is thrown, else getAudioDuration is awaited
WH_response(ok, text) ==
  /\ UNCHANGED whOthers
  /\ whPc = "fetching"
  /\ IF ok
       THEN /\ whPc' = "measuring"
            /\ whText' = text
            /\ UNCHANGED whError
       ELSE /\ whPc' = "rejected"
            /\ whError' = WH_ApiError
            /\ UNCHANGED whText
  /\ UNCHANGED << whClip, whSource, whKey, whStored, whRequests, whResult >>

\* getAudioDuration returns and the result is assembled
WH_measured ==
  /\ UNCHANGED whOthers
  /\ whPc = "measuring"
  /\ whPc' = "resolved"
  /\ whResult' =
       [fullText |-> whText,
        segments |-> << [text |-> whText, timestamp |-> 0, confidence |-> 85] >>,
        duration |-> WH_getAudioDuration(whClip)]
  /\ UNCHANGED << whClip, whSource, whKey, whStored, whRequests, whText,
                  whError >>

\* setAPIKey: a key that starts with "sk-" is stored, any other is refused
WH_setAPIKey(wellFormed) ==
  /\ UNCHANGED whOthers
  /\ whStored' = (whStored \/ wellFormed)
  /\ UNCHANGED << whPc, whClip, whSource, whKey, whRequests, whText, whResult,
                  whError >>

\* clearAPIKey
WH_clearAPIKey ==
  /\ UNCHANGED whOthers
  /\ whStored' = FALSE
  /\ UNCHANGED << whPc, whClip, whSource, whKey, whRequests, whText, whResult,
                  whError >>

WH_Next ==
  \/ \E clip \in Clips, audioSource \in AudioSources, apiKey \in BOOLEAN :
       WH_transcribeAudioFile(clip, audioSource, apiKey)
  \/ \E wellFormed \in BOOLEAN : WH_setAPIKey(wellFormed)
  \/ WH_clearAPIKey
  \/ WH_validated
  \/ \E ok \in BOOLEAN, text \in WH_Texts : WH_response(ok, text)
  \/ WH_measured

\* One call of each file transcription service that validates the clip's
\* duration: a call of TrueOfflineTranscriptionService with the events of its
\* recognizer, and a call of WhisperTranscriptionService.
Validation_Next ==
  \/ TO_Step(1)
  \/ \E r \in TO_Results : TO_onresult(r)
  \/ \E code \in ErrorCodes : TO_onerror(code)
  \/ TO_onend
  \/ WH_Next

\* ------------------------------------------------------------------
\* OfflineTranscriptionService

\* validateAudioFile: valid when the clip decodes
OFF_validateAudioFile(clip) ==
  IF clip.decodes
    THEN [isValid |-> TRUE, reason |-> <<>>, duration |-> clip.duration]
    ELSE [isValid |-> FALSE, reason |-> InvalidFormat, duration |-> 0]

\* enhanceErrorMessage
OFF_enhanceErrorMessage(error, audioSource) ==
  (IF error.isError THEN error.message ELSE << "Unknown error occurred" >>)
    \o << CASE audioSource = "system" -> "SYSTEM AUDIO TROUBLESHOOTING"
            [] audioSource = "both" -> "COMBINED AUDIO TROUBLESHOOTING"
            [] audioSource = "microphone" -> "MICROPHONE TROUBLESHOOTING"
            [] OTHER -> "" >>

\* `Internal transcription failed: ${event.error}`
OFF_recognitionFailed(code) ==
  [isError |-> TRUE, message |-> << "Internal transcription failed: ", code >>]

\* `Failed to start internal transcription: ${startError.message}`
OFF_startFailed ==
  [isError |-> TRUE,
   message |-> << "Failed to start internal transcription: ",
                  "recognition has already started" >>]

\* bestConfidence || 0.5, in hundredths
OFF_confidence(r) == IF r.confidence = 0 THEN 50 ELSE r.confidence

OFF_LowConfidence == 60

\* segments.reduce((sum, seg) => sum + seg.confidence, 0)
RECURSIVE OFF_sumConfidence(_)
OFF_sumConfidence(segments) ==
  IF segments = <<>> THEN 0
  ELSE Head(segments).confidence + OFF_sumConfidence(Tail(segments))

\* The result the first onend handler resolves with.
OFF_result ==
  LET sum == OFF_sumConfidence(offSegs)
      n == Len(offSegs)
  IN [fullText |-> Trim(offFinal),
      segments |-> offSegs,
      duration |-> 0,
      audioSource |-> offSource,
      averageConfidence |-> [num |-> sum, den |-> IF n = 0 THEN 1 ELSE n],
      hasLowConfidence |-> (n = 0 \/ sum < OFF_LowConfidence * n)]

OFF_NoResult ==
  [fullText |-> <<>>, segments |-> <<>>, duration |-> 0, audioSource |-> "",
   averageConfidence |-> [num |-> 0, den |-> 1], hasLowConfidence |-> TRUE]

OFF_Init ==
  /\ offPc = "idle"
  /\ offClip = NoClip
  /\ offSource = ""
  /\ offRec = "idle"
  /\ offOnend = "none"
  /\ offPromise = "none"
  /\ offFinal = <<>>
  /\ offSegs = <<>>
  /\ offSeen = 0
  /\ offProcessing = FALSE
  /\ offCtx = "none"
  /\ offAudio = "none"
  /\ offUrl = "none"
  /\ offTimers = {}
  /\ offResult = OFF_NoResult
  /\ offError = NoError

\* transcribeAudioFile up to `await this.validateAudioFile(audioBlob)`
OFF_transcribeAudioFile(clip, audioSource) ==
  /\ UNCHANGED offOthers
  /\ offPc = "idle"
  /\ offPc' = "validating"
  /\ offClip' = clip
  /\ offSource' = audioSource
  /\ UNCHANGED << offRec, offOnend, offPromise, offFinal, offSegs, offSeen,
                  offProcessing, offCtx, offAudio, offUrl, offTimers,
                  offResult, offError >>

\* validateAudioFile returns.  An invalid clip is thrown and enhanced.  For a
\* valid one the executor of transcribeAudioFileDirectly runs: it installs
\* onresult, onerror and the resolving onend, starts the recognizer and the
\* playback, arms the 45 s timer and then assigns recognition.onend a second
\* time; start() throwing is caught.
OFF_validated ==
  /\ UNCHANGED offOthers
  /\ offPc = "validating"
  /\ LET audioValidation == OFF_validateAudioFile(offClip) IN
     IF ~audioValidation.isValid
       THEN /\ offPc' = "rejected"
            /\ offError' = OFF_enhanceErrorMessage(
                             ValidationFailed(audioValidation.reason), offSource)
            /\ UNCHANGED << offRec, offOnend, offPromise, offProcessing,
                            offCtx, offAudio, offUrl, offTimers >>
     ELSE IF offRec \in { "idle", "ended" }
       THEN /\ offPc' = "recognizing"
            /\ offPromise' = "pending"
            /\ offUrl' = "live"
            /\ offCtx' = "open"
            /\ offProcessing' = TRUE
            /\ offRec' = "listening"
            /\ offAudio' = "starting"
            /\ offTimers' = { "timeout" }
            /\ offOnend' = "clearing"
            /\ UNCHANGED offError
     ELSE /\ offPc' = "rejected"
          /\ offPromise' = "rejected"
          /\ offOnend' = "resolving"
          /\ offProcessing' = FALSE
          /\ offCtx' = "closed"
          /\ offUrl' = "revoked"
          /\ offError' = OFF_enhanceErrorMessage(OFF_startFailed, offSource)
          /\ UNCHANGED << offRec, offAudio, offTimers >>
  /\ UNCHANGED << offClip, offSource, offFinal, offSegs, offSeen, offResult >>

\* recognition.onresult
OFF_onresult(r) ==
  /\ UNCHANGED offOthers
  /\ offRec \in { "listening", "stopping" }
  /\ offSeen < MaxResults
  /\ offSeen' = offSeen + 1
  /\ IF r.isFinal /\ Trim(r.transcript) # <<>>
       THEN /\ offFinal' = offFinal \o Trim(r.transcript) \o << " " >>
            /\ offSegs' = Append(offSegs,
                 [text |-> Trim(r.transcript), confidence |-> OFF_confidence(r)])
       ELSE UNCHANGED << offFinal, offSegs >>
  /\ UNCHANGED << offPc, offClip, offSource, offRec, offOnend, offPromise,
                  offProcessing, offCtx, offAudio, offUrl, offTimers,
                  offResult, offError >>

\* recognition.onerror: cleanup(), revoke, reject; the awaiting call rethrows
\* the enhanced error
OFF_onerror(code) ==
  /\ UNCHANGED offOthers
  /\ offRec \in { "listening", "stopping" }
  /\ offRec' = "errored"
  /\ offProcessing' = FALSE
  /\ offCtx' = IF offCtx = "open" THEN "closed" ELSE offCtx
  /\ offUrl' = "revoked"
  /\ IF offPromise = "pending"
       THEN /\ offPromise' = "rejected"
            /\ offPc' = "rejected"
            /\ offError' =
                 OFF_enhanceErrorMessage(OFF_recognitionFailed(code), offSource)
       ELSE UNCHANGED << offPromise, offPc, offError >>
  /\ UNCHANGED << offClip, offSource, offOnend, offFinal, offSegs, offSeen,
                  offAudio, offTimers, offResult >>

\* recognition.onend: the handler that is installed runs
OFF_onend ==
  /\ UNCHANGED offOthers
  /\ Live(offRec)
  /\ offRec' = "ended"
  /\ offProcessing' = FALSE
  /\ IF offOnend = "resolving"
       THEN /\ offCtx' = IF offCtx = "open" THEN "closed" ELSE offCtx
            /\ offUrl' = "revoked"
            /\ UNCHANGED offTimers
            /\ IF offPromise = "pending"
                 THEN /\ offPromise' = "resolved"
                      /\ offPc' = "resolved"
                      /\ offResult' = OFF_result
                 ELSE UNCHANGED << offPromise, offPc, offResult >>
       ELSE /\ offTimers' = offTimers \ { "timeout" }
            /\ UNCHANGED << offCtx, offUrl, offPromise, offPc, offResult >>
  /\ UNCHANGED << offClip, offSource, offOnend, offFinal, offSegs, offSeen,
                  offAudio, offError >>

\* audio.play() resolves
OFF_playStarted ==
  /\ UNCHANGED offOthers
  /\ offAudio = "starting"
  /\ offAudio' = "playing"
  /\ UNCHANGED << offPc, offClip, offSource, offRec, offOnend, offPromise,
                  offFinal, offSegs, offSeen, offProcessing, offCtx, offUrl,
                  offTimers, offResult, offError >>

\* audio.play() rejects: setTimeout(() => this.recognition.stop(), 3000)
OFF_playFailed ==
  /\ UNCHANGED offOthers
  /\ offAudio = "starting"
  /\ offAudio' = "failed"
  /\ offTimers' = offTimers \cup { "playFailed" }
  /\ UNCHANGED << offPc, offClip, offSource, offRec, offOnend, offPromise,
                  offFinal, offSegs, offSeen, offProcessing, offCtx, offUrl,
                  offResult, offError >>

\* the audio element's 'ended': setTimeout(..., 2000)
OFF_audioEnded ==
  /\ UNCHANGED offOthers
  /\ offAudio = "playing"
  /\ offAudio' = "ended"
  /\ offTimers' = offTimers \cup { "ended" }
  /\ UNCHANGED << offPc, offClip, offSource, offRec, offOnend, offPromise,
                  offFinal, offSegs, offSeen, offProcessing, offCtx, offUrl,
                  offResult, offError >>

\* a timer fires: the playback-failure timer stops the recognizer, the other
\* two stop it if this.isProcessing
OFF_timer(t) ==
  /\ UNCHANGED offOthers
  /\ t \in offTimers
  /\ offTimers' = offTimers \ { t }
  /\ offRec' = IF t = "playFailed" \/ offProcessing
                 THEN Stopped(offRec) ELSE offRec
  /\ UNCHANGED << offPc, offClip, offSource, offOnend, offPromise, offFinal,
                  offSegs, offSeen, offProcessing, offCtx, offAudio, offUrl,
                  offResult, offError >>

OFF_Next ==
  \/ \E clip \in Clips, audioSource \in AudioSources :
       OFF_transcribeAudioFile(clip, audioSource)
  \/ OFF_validated
  \/ \E r \in TO_Results : OFF_onresult(r)
  \/ \E code \in ErrorCodes : OFF_onerror(code)
  \/ OFF_onend
  \/ OFF_playStarted
  \/ OFF_playFailed
  \/ OFF_audioEnded
  \/ \E t \in { "playFailed", "ended", "timeout" } : OFF_timer(t)

\* ------------------------------------------------------------------
\* Real-time transcription: SpeechToTextService and useRecorderStore

\* Results the engine delivers in one real-time session.
RtMaxResults == 2

\* Poll intervals running at once.
MaxPolls == 2

\* The real-time recognizer runs with interimResults = true.
RT_Results == { r \in ResultsFor(TRUE) : r.confidence = 90 \/ r.isFinal }

RT_isFinalAlways(r) == TRUE

\* `if (result.isFinal)` of recognition.onresult
RT_isFinal(r) == r.isFinal

\* result[0].confidence || 1.0, in hundredths
RT_confidence(r) == IF r.confidence = 0 THEN 100 ELSE r.confidence

RT_Init ==
  /\ rtRec = "idle"
  /\ rtListening = FALSE
  /\ rtFinal = <<>>
  /\ rtInterim = <<>>
  /\ rtSegs = <<>>
  /\ rtSeen = 0
  /\ rtTranscribing = FALSE
  /\ rtEnabled = FALSE
  /\ rtTranscription = <<>>
  /\ rtInterimShown = <<>>
  /\ rtPolls = 0
  /\ rtStopped = FALSE
  /\ rtReturned = NoResult
  /\ rtError = NoError

\* 'Failed to start speech recognition. Please try again.'
RT_StartFailed == << "Failed to start speech recognition. Please try again." >>

\* store.startRealTimeTranscription, with the service's
\* startRealTimeTranscription: a listening service returns at once; otherwise
\* reset() and recognition.start(), which throws on an active recognizer.
RT_startRealTimeTranscription ==
  /\ UNCHANGED rtOthers
  /\ rtPolls < MaxPolls
  /\ IF rtListening
       THEN /\ UNCHANGED << rtRec, rtFinal, rtInterim, rtSegs, rtSeen,
                            rtStopped, rtReturned >>
            /\ rtTranscribing' = TRUE
            /\ rtEnabled' = TRUE
            /\ rtTranscription' = <<>>
            /\ rtInterimShown' = <<>>
            /\ rtPolls' = rtPolls + 1
            /\ rtError' = NoError
     ELSE /\ rtFinal' = <<>>
          /\ rtInterim' = <<>>
          /\ rtSegs' = <<>>
          /\ rtStopped' = FALSE
          /\ rtReturned' = NoResult
          /\ IF rtRec = "idle"
               THEN /\ rtRec' = "starting"
                    /\ rtSeen' = 0
                    /\ rtTranscribing' = TRUE
                    /\ rtEnabled' = TRUE
                    /\ rtTranscription' = <<>>
                    /\ rtInterimShown' = <<>>
                    /\ rtPolls' = rtPolls + 1
                    /\ rtError' = NoError
               ELSE /\ rtTranscribing' = FALSE
                    /\ rtError' = RT_StartFailed
                    /\ UNCHANGED << rtRec, rtSeen, rtEnabled, rtTranscription,
                                    rtInterimShown, rtPolls >>
  /\ UNCHANGED rtListening

\* store.stopRealTimeTranscription, with the service's
\* stopRealTimeTranscription: stop() if listening, and the result is built
\* from what has been received so far.
RT_stopRealTimeTranscription ==
  /\ UNCHANGED rtOthers
  /\ rtRec' = IF rtListening THEN Stopped(rtRec) ELSE rtRec
  /\ LET result == [fullText |-> Trim(rtFinal), segments |-> rtSegs] IN
     /\ rtReturned' = result
     /\ rtTranscription' = result.fullText
  /\ rtStopped' = (rtStopped \/ rtListening)
  /\ rtTranscribing' = FALSE
  /\ rtEnabled' = FALSE
  /\ rtInterimShown' = <<>>
  /\ UNCHANGED << rtListening, rtFinal, rtInterim, rtSegs, rtSeen, rtPolls,
                  rtError >>

\* a tick of a poll interval
RT_poll ==
  /\ UNCHANGED rtOthers
  /\ rtPolls > 0
  /\ IF rtListening
       THEN /\ rtTranscription' = rtFinal
            /\ rtInterimShown' = rtInterim
            /\ UNCHANGED << rtPolls, rtTranscribing >>
       ELSE /\ rtPolls' = rtPolls - 1
            /\ rtTranscribing' = FALSE
            /\ rtInterimShown' = <<>>
            /\ UNCHANGED rtTranscription
  /\ UNCHANGED << rtRec, rtListening, rtFinal, rtInterim, rtSegs, rtSeen,
                  rtEnabled, rtStopped, rtReturned, rtError >>

\* recognition.onstart
RT_onstart ==
  /\ UNCHANGED rtOthers
  /\ rtRec = "starting"
  /\ rtRec' = "listening"
  /\ rtListening' = TRUE
  /\ UNCHANGED << rtFinal, rtInterim, rtSegs, rtSeen, rtTranscribing,
                  rtEnabled, rtTranscription, rtInterimShown, rtPolls,
                  rtStopped, rtReturned, rtError >>

\* recognition.onresult with one new result
RT_onresult(r) ==
  /\ UNCHANGED rtOthers
  /\ rtRec \in { "listening", "stopping" }
  /\ rtSeen < RtMaxResults
  /\ rtSeen' = rtSeen + 1
  /\ IF RT_isFinal(r)
       THEN /\ rtFinal' = rtFinal \o r.transcript \o << " " >>
            /\ rtSegs' = Append(rtSegs,
                 [text |-> r.transcript, confidence |-> RT_confidence(r)])
            /\ rtInterim' = <<>>
       ELSE /\ rtInterim' = r.transcript
            /\ UNCHANGED << rtFinal, rtSegs >>
  /\ UNCHANGED << rtRec, rtListening, rtTranscribing, rtEnabled,
                  rtTranscription, rtInterimShown, rtPolls, rtStopped,
                  rtReturned, rtError >>

\* recognition.onerror: isListening = false; the Error it throws is caught by
\* nobody
RT_onerror(code) ==
  /\ UNCHANGED rtOthers
  /\ rtRec \in { "starting", "listening", "stopping" }
  /\ rtRec' = "errored"
  /\ rtListening' = FALSE
  /\ UNCHANGED << rtFinal, rtInterim, rtSegs, rtSeen, rtTranscribing,
                  rtEnabled, rtTranscription, rtInterimShown, rtPolls,
                  rtStopped, rtReturned, rtError >>

\* recognition.onend
RT_onend ==
  /\ UNCHANGED rtOthers
  /\ Live(rtRec)
  /\ rtRec' = "idle"
  /\ rtListening' = FALSE
  /\ UNCHANGED << rtFinal, rtInterim, rtSegs, rtSeen, rtTranscribing,
                  rtEnabled, rtTranscription, rtInterimShown, rtPolls,
                  rtStopped, rtReturned, rtError >>

RT_Next ==
  \/ RT_startRealTimeTranscription
  \/ RT_stopRealTimeTranscription
  \/ RT_poll
  \/ RT_onstart
  \/ \E r \in RT_Results : RT_onresult(r)
  \/ \E code \in ErrorCodes : RT_onerror(code)
  \/ RT_onend

\* ------------------------------------------------------------------
\* The side panel's automatic transcription of a finished recording
\* (src/src/components/SidePanel.tsx, performAutoTranscription)

\* The longest fullText a transcription resolves with.
MaxLen == 6

\* Automatic transcriptions appended to the notes of one session.
MaxNotes == 1

\* The characters of a transcription: a letter, a character that is neither
\* a letter nor white space, and the white space.
Chars == { "a", "1" } \cup WhiteSpace

Texts == UNION { [1..n -> Chars] : n \in 0..MaxLen }

\* [a-zA-ZÀ-ſ]
SP_isLetter(c) == c = "a"

\* .replace(/^[^a-zA-ZÀ-ſ]/, ''): a pattern without the star.
SP_stripFirst(s) ==
  IF s = <<>> \/ SP_isLetter(Head(s)) THEN s ELSE Tail(s)

\* .replace(/^[^a-zA-ZÀ-ſ]*/, '')
RECURSIVE SP_stripLeading(_)
SP_stripLeading(s) ==
  IF s = <<>> \/ SP_isLetter(Head(s)) THEN s ELSE SP_stripLeading(Tail(s))

\* .replace(/\s+/g, ' ')
RECURSIVE SP_collapse(_)
SP_collapse(s) ==
  IF s = <<>> THEN s
  ELSE IF Head(s) \in WhiteSpace
         THEN << " " >> \o SP_collapse(TrimLeft(Tail(s)))
         ELSE << Head(s) >> \o SP_collapse(Tail(s))

cleanedText(fullText) == Trim(SP_collapse(SP_stripLeading(fullText)))

\* The length in `cleanedText.length > 5`.
SP_MinLength == 5

\* if (cleanedText.length > 5)
SP_isMeaningful(text) == Len(text) > SP_MinLength

SP_NoError == "null"
SP_Unsupported == "Offline transcription not supported in this browser"
SP_TooShort == "Transcription resulted in text that was too short or unclear"
SP_NoSpeech == "No speech was detected in the audio recording"

\* What the transcription service throws: an Error with its message, or a
\* value that is not an Error.
SP_Thrown ==
  [isError : BOOLEAN,
   message : { "Maximum call stack size exceeded",
               "Speech recognition not supported in this browser",
               "Speech recognition error: no-speech",
               "Speech recognition error: audio-capture",
               "Audio file is too short" }]

\* The catch block's errorMessage.
SP_errorMessage(thrown) ==
  IF ~thrown.isError THEN "Unknown error occurred"
  ELSE IF thrown.message = "Maximum call stack size exceeded"
    THEN "Transcription service encountered an error. Please try recording again."
  ELSE IF thrown.message = "Speech recognition not supported in this browser"
    THEN "Browser does not support offline transcription. Try Chrome or Edge browser."
  ELSE IF thrown.message = "Speech recognition error: no-speech"
    THEN "No speech detected in the recording. Please record with clear speech and check microphone."
  ELSE IF thrown.message = "Speech recognition error: audio-capture"
    THEN "Microphone permission required. Please allow microphone access and try again."
  ELSE thrown.message

SP_Init ==
  /\ spPc = "idle"
  /\ spResult = <<>>
  /\ spHasResult = FALSE
  /\ spNotes = <<>>
  /\ spError = SP_NoError
  /\ spClosure = <<>>
  /\ spReset = FALSE

\* What the user types into the notes editor.
SP_Typed == << "t" >>

\* performAutoTranscription up to its await; `supported` is what
\* isOfflineSupported() answers.  The function is the one of the render in
\* which its caller ran: the currentSession it reads later is that render's.
SP_performAutoTranscription(supported) ==
  /\ spPc = "idle"
  /\ Len(spNotes) < MaxNotes
  /\ IF supported
       THEN /\ spPc' = "transcribing"
            /\ spError' = SP_NoError
            /\ spHasResult' = FALSE
            /\ spResult' = <<>>
            /\ spClosure' = spNotes
            /\ spReset' = FALSE
       ELSE /\ spError' = SP_Unsupported
            /\ UNCHANGED << spPc, spHasResult, spResult, spClosure, spReset >>
  /\ UNCHANGED << spNotes, spOthers >>

\* The transcription resolved with `fullText`: the rest of the try block,
\* and the finally.
SP_resolved(fullText) ==
  /\ spPc = "transcribing"
  /\ spPc' = "idle"
  /\ spResult' = fullText
  /\ spHasResult' = TRUE
  /\ IF Trim(fullText) # <<>>
       THEN IF SP_isMeaningful(cleanedText(fullText))
              THEN /\ spNotes' = Append(spClosure, cleanedText(fullText))
                   /\ UNCHANGED spError
              ELSE /\ spError' = SP_TooShort
                   /\ UNCHANGED spNotes
       ELSE /\ spError' = SP_NoSpeech
            /\ UNCHANGED spNotes
  /\ UNCHANGED << spClosure, spReset, spOthers >>

\* The transcription threw: the catch block, and the finally.
SP_rejected(thrown) ==
  /\ spPc = "transcribing"
  /\ spPc' = "idle"
  /\ spError' = SP_errorMessage(thrown)
  /\ UNCHANGED << spResult, spHasResult, spNotes, spClosure, spReset, spOthers >>

\* handleResetSession, confirmed: the store's resetSession empties the notes
\* of the session, and the result and the error are set to null.
SP_handleResetSession ==
  /\ spNotes' = <<>>
  /\ spResult' = <<>>
  /\ spHasResult' = FALSE
  /\ spError' = SP_NoError
  /\ spReset' = (spPc = "transcribing")
  /\ UNCHANGED << spPc, spClosure, spOthers >>

\* The notes editor's onChange: setNotes with the notes as the user left them
SP_setNotes ==
  /\ Len(spNotes) < MaxNotes
  /\ spNotes' = Append(spNotes, SP_Typed)
  /\ UNCHANGED << spPc, spResult, spHasResult, spError, spClosure, spReset,
                  spOthers >>

SP_Next ==
  \/ \E supported \in BOOLEAN : SP_performAutoTranscription(supported)
  \/ \E fullText \in Texts : SP_resolved(fullText)
  \/ \E thrown \in SP_Thrown : SP_rejected(thrown)
  \/ SP_handleResetSession
  \/ SP_setNotes

\* The cleaning on its own: applied to a text, and applied again to the
\* text it produced.
CLN_Init ==
  /\ clnPc = "new"
  /\ clnText = <<>>
  /\ clnCleaned = <<>>
  /\ clnAgain = <<>>

CLN_clean(fullText) ==
  /\ clnPc = "new"
  /\ clnPc' = "cleaned"
  /\ clnText' = fullText
  /\ clnCleaned' = cleanedText(fullText)
  /\ UNCHANGED << clnAgain, clnOthers >>

CLN_cleanAgain ==
  /\ clnPc = "cleaned"
  /\ clnPc' = "again"
  /\ clnAgain' = cleanedText(clnCleaned)
  /\ UNCHANGED << clnText, clnCleaned, clnOthers >>

CLN_Next ==
  \/ \E fullText \in Texts : CLN_clean(fullText)
  \/ CLN_cleanAgain

\* ------------------------------------------------------------------
\* CleanTranscriptionService: file transcription
\* (src/src/services/cleanTranscriptionService.ts)

\* A clip as validateAudio and analyzeAudio see it: blob.size, whether
\* decodeAudioData accepts it, the duration in milliseconds, the mean of the
\* absolute samples in thousandths and the share of samples under 0.01 in
\* hundredths.
CTS_Clips ==
  [size : { 1024 }, decodes : { TRUE }, duration : { 499, 500 },
   averageLevel : { 10, 11, 50, 51 }, silenceRatio : { 79, 80 }]
  \cup [size : { 0, 1023, 1024 }, decodes : { FALSE }, duration : { 0 },
        averageLevel : { 0 }, silenceRatio : { 0 }]

CTS_NoClip ==
  [size |-> 0, decodes |-> FALSE, duration |-> 0, averageLevel |-> 0,
   silenceRatio |-> 0]

CTS_MinSize == 1024
CTS_MinDuration == 500
CTS_MaxDuration == 600000

\* validateAudio: the reason of an invalid clip, "" for a valid one.
CTS_validateAudio(clip) ==
  IF clip.size = 0 THEN << "Audio file is empty" >>
  ELSE IF clip.size < CTS_MinSize
    THEN << "Audio file too small (minimum 1KB required)" >>
  ELSE IF ~clip.decodes THEN << "Invalid audio format: " >> \o DecodeError
  ELSE IF clip.duration < CTS_MinDuration
    THEN << "Audio too short (minimum 0.5 seconds required)" >>
  ELSE IF clip.duration > CTS_MaxDuration
    THEN << "Audio too long (maximum 10 minutes allowed)" >>
  ELSE <<>>

CTS_SignificantLevel == 10
CTS_HighQualityLevel == 50
CTS_HighQualitySilence == 80

\* analyzeAudio; `failed` when its try block throws.
CTS_analyzeAudio(clip, failed) ==
  IF failed
    THEN [hasSignificantAudio |-> TRUE, isHighQuality |-> FALSE]
    ELSE [hasSignificantAudio |-> clip.averageLevel > CTS_SignificantLevel,
          isHighQuality |-> /\ clip.averageLevel > CTS_HighQualityLevel
                            /\ clip.silenceRatio < CTS_HighQualitySilence]

CTS_NoAnalysis == [hasSignificantAudio |-> FALSE, isHighQuality |-> FALSE]

selectOptimalStrategy(audioSource, analysis) ==
  IF analysis.isHighQuality THEN "direct-playback" ELSE "standard-processing"

\* executeTranscriptionStrategy: the methods that run a playback for a
\* strategy, in the order they are tried; a later one runs when the one
\* before it threw.
CTS_methods(strategy) ==
  CASE strategy = "direct-playback" -> << "direct-playback" >>
    [] strategy = "enhanced-processing" -> << "enhanced-processing" >>
    [] strategy = "adaptive-processing" ->
         << "adaptive-processing", "standard-processing" >>
    [] OTHER -> << "standard-processing" >>

\* enhanceErrorMessage
CTS_enhanceErrorMessage(message, audioSource) ==
  message
    \o << CASE audioSource = "microphone" -> "Microphone Tips"
            [] audioSource = "system" -> "System Audio Tips"
            [] audioSource = "both" -> "Combined Audio Tips"
            [] OTHER -> "" >>

\* result[0].confidence || 1.0, in hundredths
CTS_confidence(r) == IF r.confidence = 0 THEN 100 ELSE r.confidence

CTS_Init ==
  /\ ctsPc = "idle"
  /\ ctsClip = CTS_NoClip
  /\ ctsSource = "microphone"
  /\ ctsAnalysis = CTS_NoAnalysis
  /\ ctsStrategy = "none"
  /\ ctsAttempts = <<>>
  /\ ctsRec = "none"
  /\ ctsPromise = "none"
  /\ ctsFinal = <<>>
  /\ ctsSegs = <<>>
  /\ ctsSeen = 0
  /\ ctsAudio = "none"
  /\ ctsTimer = FALSE
  /\ ctsResult = NoResult
  /\ ctsError = NoError

ctsSession == << ctsRec, ctsPromise, ctsFinal, ctsSegs, ctsSeen, ctsAudio, ctsTimer >>

\* transcribeWithDirectPlayback up to the return of its promise.
CTS_transcribeWithDirectPlayback ==
  /\ ctsRec' = "listening"
  /\ ctsPromise' = "pending"
  /\ ctsFinal' = <<>>
  /\ ctsSegs' = <<>>
  /\ ctsSeen' = 0
  /\ ctsAudio' = "playing"
  /\ ctsTimer' = FALSE

\* transcribeAudioFile up to the await in validateAudio.
CTS_transcribeAudioFile(clip, audioSource) ==
  /\ ctsPc = "idle"
  /\ ctsPc' = "validating"
  /\ ctsClip' = clip
  /\ ctsSource' = audioSource
  /\ UNCHANGED << ctsAnalysis, ctsStrategy, ctsAttempts, ctsSession,
                  ctsResult, ctsError, ctsOthers >>

\* validateAudio settles: the call throws, or goes on to analyzeAudio.
CTS_validated ==
  /\ ctsPc = "validating"
  /\ IF CTS_validateAudio(ctsClip) # <<>>
       THEN /\ ctsPc' = "rejected"
            /\ ctsError' =
                 CTS_enhanceErrorMessage(
                   << "Audio validation failed: " >>
                     \o CTS_validateAudio(ctsClip), ctsSource)
       ELSE /\ ctsPc' = "analysing"
            /\ UNCHANGED ctsError
  /\ UNCHANGED << ctsClip, ctsSource, ctsAnalysis, ctsStrategy, ctsAttempts,
                  ctsSession, ctsResult, ctsOthers >>

\* analyzeAudio settles: the strategy is selected and its first method
\* starts the playback.
CTS_analysed(failed) ==
  /\ ctsPc = "analysing"
  /\ ctsPc' = "transcribing"
  /\ ctsAnalysis' = CTS_analyzeAudio(ctsClip, failed)
  /\ ctsStrategy' = selectOptimalStrategy(ctsSource, ctsAnalysis')
  /\ ctsAttempts' = << Head(CTS_methods(ctsStrategy')) >>
  /\ CTS_transcribeWithDirectPlayback
  /\ UNCHANGED << ctsClip, ctsSource, ctsResult, ctsError, ctsOthers >>

CTS_onresult(r) ==
  /\ ctsRec = "listening"
  /\ ctsSeen < MaxResults
  /\ ctsSeen' = ctsSeen + 1
  /\ IF r.isFinal
       THEN /\ ctsFinal' = ctsFinal \o Trim(r.transcript) \o << " " >>
            /\ ctsSegs' = Append(ctsSegs,
                 [text |-> Trim(r.transcript),
                  confidence |-> CTS_confidence(r)])
       ELSE UNCHANGED << ctsFinal, ctsSegs >>
  /\ UNCHANGED << ctsPc, ctsClip, ctsSource, ctsAnalysis, ctsStrategy,
                  ctsAttempts, ctsRec, ctsPromise, ctsAudio, ctsTimer,
                  ctsResult, ctsError, ctsOthers >>

\* recognition.onerror: the playback's promise rejects; the next method of
\* the strategy starts, or the call throws.
CTS_onerror(code) ==
  /\ ctsRec \in { "listening", "stopping" }
  /\ IF ctsPromise # "pending"
       THEN /\ ctsRec' = "errored"
            /\ UNCHANGED << ctsPc, ctsAttempts, ctsPromise, ctsFinal, ctsSegs,
                            ctsSeen, ctsAudio, ctsTimer, ctsError >>
       ELSE IF Len(ctsAttempts) < Len(CTS_methods(ctsStrategy))
         THEN /\ ctsAttempts' =
                   Append(ctsAttempts,
                          CTS_methods(ctsStrategy)[Len(ctsAttempts) + 1])
              /\ CTS_transcribeWithDirectPlayback
              /\ UNCHANGED << ctsPc, ctsError >>
         ELSE /\ ctsRec' = "errored"
              /\ ctsPromise' = "rejected"
              /\ ctsPc' = "rejected"
              /\ ctsError' =
                   CTS_enhanceErrorMessage(
                     << "Transcription failed: ", code >>, ctsSource)
              /\ UNCHANGED << ctsAttempts, ctsFinal, ctsSegs, ctsSeen,
                              ctsAudio, ctsTimer >>
  /\ UNCHANGED << ctsClip, ctsSource, ctsAnalysis, ctsStrategy, ctsResult,
                  ctsOthers >>

\* recognition.onend: the playback's promise resolves if it is pending.
CTS_onend ==
  /\ ctsRec \in { "listening", "stopping", "errored" }
  /\ ctsRec' = "ended"
  /\ IF ctsPromise = "pending"
       THEN /\ ctsPromise' = "resolved"
            /\ ctsPc' = "resolved"
            /\ ctsResult' = [fullText |-> Trim(ctsFinal), segments |-> ctsSegs]
       ELSE UNCHANGED << ctsPromise, ctsPc, ctsResult >>
  /\ UNCHANGED << ctsClip, ctsSource, ctsAnalysis, ctsStrategy, ctsAttempts,
                  ctsFinal, ctsSegs, ctsSeen, ctsAudio, ctsTimer, ctsError,
                  ctsOthers >>

\* audio.play() rejects: a warning is logged.
CTS_playFailed ==
  /\ ctsAudio = "playing"
  /\ ctsAudio' = "failed"
  /\ UNCHANGED << ctsPc, ctsClip, ctsSource, ctsAnalysis, ctsStrategy,
                  ctsAttempts, ctsRec, ctsPromise, ctsFinal, ctsSegs, ctsSeen,
                  ctsTimer, ctsResult, ctsError, ctsOthers >>

\* The audio's ended event: the stop timer is armed.
CTS_audioEnded ==
  /\ ctsAudio = "playing"
  /\ ctsAudio' = "ended"
  /\ ctsTimer' = TRUE
  /\ UNCHANGED << ctsPc, ctsClip, ctsSource, ctsAnalysis, ctsStrategy,
                  ctsAttempts, ctsRec, ctsPromise, ctsFinal, ctsSegs, ctsSeen,
                  ctsResult, ctsError, ctsOthers >>

\* The stop timer: recognition.stop().
CTS_timer ==
  /\ ctsTimer
  /\ ctsTimer' = FALSE
  /\ ctsRec' = IF ctsRec = "listening" THEN "stopping" ELSE ctsRec
  /\ UNCHANGED << ctsPc, ctsClip, ctsSource, ctsAnalysis, ctsStrategy,
                  ctsAttempts, ctsPromise, ctsFinal, ctsSegs, ctsSeen,
                  ctsAudio, ctsResult, ctsError, ctsOthers >>

CTS_Next ==
  \/ \E clip \in CTS_Clips, audioSource \in AudioSources :
       CTS_transcribeAudioFile(clip, audioSource)
  \/ CTS_validated
  \/ \E failed \in BOOLEAN : CTS_analysed(failed)
  \/ \E r \in ResultsFor(TRUE) : CTS_onresult(r)
  \/ \E code \in ErrorCodes : CTS_onerror(code)
  \/ CTS_onend
  \/ CTS_playFailed
  \/ CTS_audioEnded
  \/ CTS_timer

\* ------------------------------------------------------------------
\* The offscreen document: the recorder and its message listener
\* (src/src/offscreen.ts)

\* MediaRecorders created in the life of the document.
MaxRecorders == 2

\* Chunks collected in audioChunks.
MaxChunks == 2

Recorders == 1 .. MaxRecorders

\* The MIME types getSupportedMimeType tries, in its order. A type is the
\* sequence of the pieces a comma separates.
MimeTypes ==
  << << "audio/webm;codecs=opus" >>,
     << "audio/webm;codecs=vp8", "opus" >>,
     << "audio/webm" >>,
     << "audio/mp4" >>,
     << "audio/ogg;codecs=opus" >>,
     << "audio/wav" >> >>

NoMime == <<>>

\* The browsers: each supports the types of the list from some place on.
SupportedSets ==
  { { MimeTypes[i] : i \in from .. Len(MimeTypes) } :
      from \in 1 .. Len(MimeTypes) + 1 }

\* The answer of isTypeSupported is not known before it is first asked.
NotAsked == { << "not asked" >> }

\* getSupportedMimeType: the first supported type of the list, or null.
getSupportedMimeType(supported) ==
  IF \E i \in 1 .. Len(MimeTypes) : MimeTypes[i] \in supported
    THEN MimeTypes[CHOOSE i \in 1 .. Len(MimeTypes) :
                     /\ MimeTypes[i] \in supported
                     /\ \A j \in 1 .. i - 1 : MimeTypes[j] \notin supported]
    ELSE NoMime

\* A Blob of recorded audio: its type, the type its bytes are encoded in
\* and the chunks it is made of.
NoBlob == [type |-> NoMime, encoding |-> NoMime, chunks |-> <<>>]

\* blobToBase64: readAsDataURL gives "data:" + type + ";base64," + bytes.
blobToBase64(blob) ==
  [mediaType |-> blob.type, encoding |-> blob.encoding, data |-> blob.chunks]

NoDataUrl == [mediaType |-> NoMime, encoding |-> NoMime, data |-> <<>>]

MessageTypes ==
  { "START_RECORDING", "STOP_RECORDING", "PAUSE_RECORDING",
    "RESUME_RECORDING" }

Messages ==
  [type : { "START_RECORDING" }, audioSource : AudioSources]
    \cup [type : MessageTypes \ { "START_RECORDING" },
          audioSource : { "microphone" }]

NoResponse ==
  [type |-> "none", success |-> FALSE, error |-> "", audioBlob |-> NoDataUrl]

OS_response(type, success, error, base64Audio) ==
  [type |-> type, success |-> success, error |-> error,
   audioBlob |-> base64Audio]

OS_Init ==
  /\ mediaRecorder = 0
  /\ audioChunks = <<>>
  /\ osState = [r \in Recorders |-> "none"]
  /\ osMime = [r \in Recorders |-> NoMime]
  /\ osOnstop = [r \in Recorders |-> "none"]
  /\ osTracks = [r \in Recorders |-> "none"]
  /\ osStopping = [r \in Recorders |-> FALSE]
  /\ osStart = "none"
  /\ osSupported = NotAsked
  /\ osResponse = NoResponse

\* The recorders created so far.
OS_created == Cardinality({ r \in Recorders : osState[r] # "none" })

\* A PAUSE_RECORDING test that looks for a recorder only.
OS_hasRecorder == mediaRecorder # 0

\* mediaRecorder && mediaRecorder.state !== 'inactive'
OS_isActive == mediaRecorder # 0 /\ osState[mediaRecorder] # "inactive"

\* case 'PAUSE_RECORDING': mediaRecorder && mediaRecorder.state === 'recording'
OS_canPause == mediaRecorder # 0 /\ osState[mediaRecorder] = "recording"

\* case 'RESUME_RECORDING': mediaRecorder && mediaRecorder.state === 'paused'
OS_canResume == mediaRecorder # 0 /\ osState[mediaRecorder] = "paused"

\* startRecording up to its first await: a recording that is still active
\* is stopped and the chunks are dropped.
OS_startRecording(audioSource) ==
  /\ osStart = "none"
  /\ OS_created < MaxRecorders
  /\ osStart' = "acquiring"
  /\ IF OS_isActive
       THEN /\ osState' = [osState EXCEPT ![mediaRecorder] = "inactive"]
            /\ osStopping' = [osStopping EXCEPT ![mediaRecorder] = TRUE]
            /\ audioChunks' = <<>>
       ELSE UNCHANGED << osState, osStopping, audioChunks >>
  /\ UNCHANGED << mediaRecorder, osMime, osOnstop, osTracks, osSupported,
                  osResponse >>

\* stopRecording: the promise is rejected at once, or the onstop handler is
\* replaced by the one that builds the blob and the recorder is stopped.
OS_stopRecording ==
  IF mediaRecorder = 0
    THEN /\ osResponse' =
              OS_response("STOP_RECORDING", FALSE, "No active recording",
                          NoDataUrl)
         /\ UNCHANGED << mediaRecorder, audioChunks, osState, osMime,
                         osOnstop, osTracks, osStopping, osStart,
                         osSupported >>
  ELSE IF osState[mediaRecorder] = "inactive"
    THEN /\ osResponse' =
              OS_response("STOP_RECORDING", FALSE,
                          "Recording is already stopped", NoDataUrl)
         /\ UNCHANGED << mediaRecorder, audioChunks, osState, osMime,
                         osOnstop, osTracks, osStopping, osStart,
                         osSupported >>
  ELSE IF getSupportedMimeType(osSupported) = NoMime
    THEN /\ osResponse' =
              OS_response("STOP_RECORDING", FALSE,
                          "No supported audio format available", NoDataUrl)
         /\ UNCHANGED << mediaRecorder, audioChunks, osState, osMime,
                         osOnstop, osTracks, osStopping, osStart,
                         osSupported >>
  ELSE /\ osOnstop' = [osOnstop EXCEPT ![mediaRecorder] = "blob"]
       /\ osState' = [osState EXCEPT ![mediaRecorder] = "inactive"]
       /\ osStopping' = [osStopping EXCEPT ![mediaRecorder] = TRUE]
       /\ UNCHANGED << mediaRecorder, audioChunks, osMime, osTracks, osStart,
                       osSupported, osResponse >>

\* case 'PAUSE_RECORDING'
OS_pauseRecording ==
  /\ IF OS_canPause
       THEN /\ osState' = [osState EXCEPT ![mediaRecorder] = "paused"]
            /\ osResponse' =
                 OS_response("PAUSE_RECORDING", TRUE, "", NoDataUrl)
       ELSE /\ osResponse' =
                 OS_response("PAUSE_RECORDING", FALSE, "Not recording",
                             NoDataUrl)
            /\ UNCHANGED osState
  /\ UNCHANGED << mediaRecorder, audioChunks, osMime, osOnstop, osTracks,
                  osStopping, osStart, osSupported >>

\* case 'RESUME_RECORDING'
OS_resumeRecording ==
  /\ IF OS_canResume
       THEN /\ osState' = [osState EXCEPT ![mediaRecorder] = "recording"]
            /\ osResponse' =
                 OS_response("RESUME_RECORDING", TRUE, "", NoDataUrl)
       ELSE /\ osResponse' =
                 OS_response("RESUME_RECORDING", FALSE, "Not paused",
                             NoDataUrl)
            /\ UNCHANGED osState
  /\ UNCHANGED << mediaRecorder, audioChunks, osMime, osOnstop, osTracks,
                  osStopping, osStart, osSupported >>

\* The listener of chrome.runtime.onMessage, for a message whose target is
\* the offscreen document.
OS_onMessage(message) ==
  CASE message.type = "START_RECORDING" ->
         OS_startRecording(message.audioSource)
    [] message.type = "STOP_RECORDING" -> OS_stopRecording
    [] message.type = "PAUSE_RECORDING" -> OS_pauseRecording
    [] message.type = "RESUME_RECORDING" -> OS_resumeRecording

\* A message arrives at the offscreen document.
OS_receive(message) ==
  /\ OS_onMessage(message)
  /\ UNCHANGED osOthers

\* The streams startRecording awaits are granted or refused; `supported` is
\* what isTypeSupported accepts. The recorder is created and started, or
\* the failure is answered.
OS_acquired(granted, supported) ==
  /\ osStart = "acquiring"
  /\ osStart' = "none"
  /\ IF ~granted
       THEN /\ osResponse' =
                 OS_response("START_RECORDING", FALSE,
                             "Failed to start recording", NoDataUrl)
            /\ UNCHANGED << mediaRecorder, audioChunks, osState, osMime,
                            osOnstop, osTracks, osSupported >>
       ELSE /\ osSupported = NotAsked \/ osSupported = supported
            /\ osSupported' = supported
            /\ IF getSupportedMimeType(supported) = NoMime
                 THEN /\ osResponse' =
                           OS_response("START_RECORDING", FALSE,
                                       "No supported audio format found",
                                       NoDataUrl)
                      /\ UNCHANGED << mediaRecorder, audioChunks, osState,
                                      osMime, osOnstop, osTracks >>
                 ELSE LET r == OS_created + 1 IN
                      /\ mediaRecorder' = r
                      /\ audioChunks' = <<>>
                      /\ osState' = [osState EXCEPT ![r] = "recording"]
                      /\ osMime' =
                           [osMime EXCEPT ![r] = getSupportedMimeType(supported)]
                      /\ osOnstop' = [osOnstop EXCEPT ![r] = "tracks"]
                      /\ osTracks' = [osTracks EXCEPT ![r] = "live"]
                      /\ osResponse' =
                           OS_response("START_RECORDING", TRUE, "", NoDataUrl)
  /\ UNCHANGED << osStopping, osOthers >>

\* ondataavailable of recorder r, for the data of a time slice.
OS_ondataavailable(r) ==
  /\ osState[r] = "recording"
  /\ Len(audioChunks) < MaxChunks
  /\ audioChunks' = Append(audioChunks, r)
  /\ UNCHANGED << mediaRecorder, osState, osMime, osOnstop, osTracks,
                  osStopping, osStart, osSupported, osResponse, osOthers >>

\* The task queued by stop() on recorder r: the last dataavailable event,
\* with data or without, then the stop event and r's onstop handler.
OS_onstop(r, hasData) ==
  /\ osStopping[r]
  /\ osStopping' = [osStopping EXCEPT ![r] = FALSE]
  /\ audioChunks' =
       IF hasData THEN Append(audioChunks, r) ELSE audioChunks
  /\ IF osOnstop[r] = "tracks"
       THEN /\ osTracks' = [osTracks EXCEPT ![r] = "stopped"]
            /\ UNCHANGED osResponse
       ELSE /\ osResponse' =
                 IF audioChunks' = <<>>
                   THEN OS_response("STOP_RECORDING", FALSE,
                          "Recording failed: no audio data captured",
                          NoDataUrl)
                   ELSE OS_response("STOP_RECORDING", TRUE, "",
                          blobToBase64(
                            [type |-> getSupportedMimeType(osSupported),
                             encoding |-> osMime[r],
                             chunks |-> audioChunks']))
            /\ UNCHANGED osTracks
  /\ UNCHANGED << mediaRecorder, osState, osMime, osOnstop, osStart,
                  osSupported, osOthers >>

OS_Next ==
  \/ \E message \in Messages : OS_receive(message)
  \/ \E granted \in BOOLEAN, supported \in SupportedSets :
       OS_acquired(granted, supported)
  \/ \E r \in Recorders : OS_ondataavailable(r)
  \/ \E r \in Recorders, hasData \in BOOLEAN : OS_onstop(r, hasData)

\* ------------------------------------------------------------------
\* The recorder store and the side panel's recording handlers
\* (src/src/store/useRecorderStore.ts, src/src/components/SidePanel.tsx,
\* src/src/services/googleDriveService.ts)

\* Seconds the recording timer counts.
MaxTime == 2

\* The state of the recorder the handlers leave alone.
osRest ==
  << mediaRecorder, audioChunks, osState, osMime, osOnstop, osTracks,
     osStopping, osStart, osSupported >>

\* base64ToBlob: the text after the first comma is decoded, and the blob is
\* typed 'audio/webm'. A media type that holds a comma leaves a piece of
\* itself in that place, and atob throws.
base64ToBlobThrows(base64) == Len(base64.mediaType) > 1

base64ToBlob(base64) ==
  [type |-> << "audio/webm" >>, encoding |-> base64.encoding,
   chunks |-> base64.data]

\* getAudioExtension
getAudioExtension(mimeType) ==
  CASE mimeType = << "audio/webm" >> -> "webm"
    [] mimeType = << "audio/mp4" >> -> "m4a"
    [] mimeType = << "audio/ogg" >> -> "ogg"
    [] mimeType = << "audio/wav" >> -> "wav"
    [] mimeType = << "audio/mpeg" >> -> "mp3"
    [] OTHER -> "webm"

NoFile == [extension |-> "", type |-> NoMime, encoding |-> NoMime]

\* incrementRecordingTime counts whether recording or not.
Store_countsAlways == TRUE

\* incrementRecordingTime: if (state.isRecording && !state.isPaused)
Store_counts == isRecording /\ ~isPaused

PN_Init ==
  /\ isRecording = FALSE
  /\ isPaused = FALSE
  /\ recordingTime = 0
  /\ audioBlob = NoBlob
  /\ pnPc = "idle"
  /\ pnHandled = "none"
  /\ pnResetTimer = FALSE
  /\ pnDriveFile = NoFile

\* handleStartRecording up to its first await: the store's startRecording,
\* and OPEN_OFFSCREEN is sent.
PN_handleStartRecording ==
  /\ pnPc = "idle"
  /\ ~isRecording
  /\ isRecording' = TRUE
  /\ isPaused' = FALSE
  /\ recordingTime' = 0
  /\ pnPc' = "opening"
  /\ UNCHANGED << audioBlob, pnHandled, pnResetTimer, pnDriveFile, osVars,
                  pnosOthers >>

\* OPEN_OFFSCREEN is answered: START_RECORDING is sent, or the catch block
\* runs.
PN_offscreenOpened(success, audioSource) ==
  /\ pnPc = "opening"
  /\ IF success
       THEN /\ pnPc' = "starting"
            /\ OS_onMessage([type |-> "START_RECORDING",
                             audioSource |-> audioSource])
            /\ UNCHANGED pnHandled
       ELSE /\ pnPc' = "idle"
            /\ pnHandled' = "OPEN_OFFSCREEN"
            /\ UNCHANGED osVars
  /\ UNCHANGED << isRecording, isPaused, recordingTime, audioBlob,
                  pnResetTimer, pnDriveFile, pnosOthers >>

\* START_RECORDING is answered: the handler returns, after the catch block
\* when the start failed.
PN_startResponse ==
  /\ pnPc = "starting"
  /\ osResponse.type = "START_RECORDING"
  /\ osResponse' = NoResponse
  /\ pnPc' = "idle"
  /\ pnHandled' = "START_RECORDING"
  /\ UNCHANGED << isRecording, isPaused, recordingTime, audioBlob,
                  pnResetTimer, pnDriveFile, osRest, pnosOthers >>

\* handlePauseResume up to its await: the store's pauseRecording, and the
\* command chosen by the isPaused the handler was rendered with is sent.
PN_handlePauseResume ==
  /\ pnPc = "idle"
  /\ isRecording
  /\ isPaused' = ~isPaused
  /\ pnPc' = "pausing"
  /\ OS_onMessage([type |-> IF isPaused THEN "RESUME_RECORDING"
                                        ELSE "PAUSE_RECORDING",
                   audioSource |-> "microphone"])
  /\ UNCHANGED << isRecording, recordingTime, audioBlob, pnHandled,
                  pnResetTimer, pnDriveFile, pnosOthers >>

\* PAUSE_RECORDING or RESUME_RECORDING is answered: the handler returns,
\* after the catch block when the command failed.
PN_pauseResponse ==
  /\ pnPc = "pausing"
  /\ osResponse.type \in { "PAUSE_RECORDING", "RESUME_RECORDING" }
  /\ osResponse' = NoResponse
  /\ pnPc' = "idle"
  /\ pnHandled' = osResponse.type
  /\ UNCHANGED << isRecording, isPaused, recordingTime, audioBlob,
                  pnResetTimer, pnDriveFile, osRest, pnosOthers >>

\* handleStopRecording up to its await: the store's stopRecording, and
\* STOP_RECORDING is sent.
PN_handleStopRecording ==
  /\ pnPc = "idle"
  /\ isRecording
  /\ isRecording' = FALSE
  /\ isPaused' = FALSE
  /\ pnPc' = "stopping"
  /\ OS_onMessage([type |-> "STOP_RECORDING", audioSource |-> "microphone"])
  /\ UNCHANGED << recordingTime, audioBlob, pnHandled, pnResetTimer,
                  pnDriveFile, pnosOthers >>

\* STOP_RECORDING is answered: the blob is rebuilt and stored, or nothing
\* is stored.
PN_stopResponse ==
  /\ pnPc = "stopping"
  /\ osResponse.type = "STOP_RECORDING"
  /\ osResponse' = NoResponse
  /\ pnPc' = "idle"
  /\ pnHandled' = "STOP_RECORDING"
  /\ audioBlob' =
       IF /\ osResponse.success
          /\ ~base64ToBlobThrows(osResponse.audioBlob)
          /\ base64ToBlob(osResponse.audioBlob).chunks # <<>>
         THEN base64ToBlob(osResponse.audioBlob)
         ELSE audioBlob
  /\ UNCHANGED << isRecording, isPaused, recordingTime, pnResetTimer,
                  pnDriveFile, osRest, pnosOthers >>

\* The interval of the timer effect: the store's incrementRecordingTime.
PN_incrementRecordingTime ==
  /\ recordingTime < MaxTime
  /\ recordingTime' =
       IF Store_counts THEN recordingTime + 1 ELSE recordingTime
  /\ UNCHANGED << isRecording, isPaused, audioBlob, pnPc, pnHandled,
                  pnResetTimer, pnDriveFile, osVars, pnosOthers >>

\* The store's resetSession.
Store_resetSession ==
  /\ isRecording' = FALSE
  /\ isPaused' = FALSE
  /\ recordingTime' = 0
  /\ audioBlob' = NoBlob

\* handleSaveToDrive with a named session: saveSession uploads the audio
\* under the extension of its type, and the reset timer is armed; or the
\* upload fails.
PN_handleSaveToDrive(uploaded) ==
  /\ pnPc = "idle"
  /\ ~isRecording
  /\ audioBlob # NoBlob
  /\ IF uploaded
       THEN /\ pnDriveFile' =
                 [extension |-> getAudioExtension(audioBlob.type),
                  type |-> audioBlob.type,
                  encoding |-> audioBlob.encoding]
            /\ pnResetTimer' = TRUE
       ELSE UNCHANGED << pnDriveFile, pnResetTimer >>
  /\ UNCHANGED << isRecording, isPaused, recordingTime, audioBlob, pnPc,
                  pnHandled, osVars, pnosOthers >>

\* The timer armed by a successful save.
PN_autoReset ==
  /\ pnResetTimer
  /\ pnResetTimer' = FALSE
  /\ Store_resetSession
  /\ UNCHANGED << pnPc, pnHandled, pnDriveFile, osVars, pnosOthers >>

\* handleResetSession, confirmed.
PN_handleResetSession ==
  /\ ~isRecording
  /\ Store_resetSession
  /\ UNCHANGED << pnPc, pnHandled, pnResetTimer, pnDriveFile, osVars,
                  pnosOthers >>

PN_Next ==
  \/ PN_handleStartRecording
  \/ \E success \in BOOLEAN, audioSource \in AudioSources :
       PN_offscreenOpened(success, audioSource)
  \/ PN_startResponse
  \/ PN_handlePauseResume
  \/ PN_pauseResponse
  \/ PN_handleStopRecording
  \/ PN_stopResponse
  \/ PN_incrementRecordingTime
  \/ \E uploaded \in BOOLEAN : PN_handleSaveToDrive(uploaded)
  \/ PN_autoReset
  \/ PN_handleResetSession
  \/ \E granted \in BOOLEAN, supported \in SupportedSets :
       OS_acquired(granted, supported)
  \/ \E r \in Recorders : OS_ondataavailable(r)
  \/ \E r \in Recorders, hasData \in BOOLEAN : OS_onstop(r, hasData)

\* ------------------------------------------------------------------
\* The offscreen document's startRecording: how the recorded stream is
\* acquired (src/src/offscreen.ts)

\* The audio input devices; getUserMedia without a deviceId captures from
\* the first.
Devices == { "built-in", "usb", "headset" }
DefaultDevice == "built-in"
NoDevice == "null"
MicrophoneIds == { NoDevice } \cup Devices

\* What getDisplayMedia gives: a rejection, a stream without an audio track,
\* or a stream with one.
DisplayOutcomes == { "denied", "silent", "audio" }

AQ_NoError == ""
AQ_MicrophoneRequired ==
  "Microphone access is required for recording. Please allow microphone access."
AQ_ScreenSharingCancelled ==
  "Screen sharing was cancelled. Please allow screen sharing and check \"Share audio\"."
AQ_SystemAudioFailed == "Failed to access system audio"
AQ_NotAllowed == "NotAllowedError"

\* The device getUserMedia captures from under the constraints built for
\* `microphoneId`: { deviceId: { exact: microphoneId } }, or no deviceId.
AQ_device(microphoneId) ==
  IF microphoneId # NoDevice THEN microphoneId ELSE DefaultDevice

AQ_systemTrack(readyState) ==
  [kind |-> "system", device |-> "display", readyState |-> readyState]

AQ_micTrack(device) ==
  [kind |-> "microphone", device |-> device, readyState |-> "live"]

\* `if (systemStream && micStream) ... else if (micStream) ...`
AQ_combine(systemStream, systemTracks, micStream) ==
  IF systemStream # "null"
    THEN << AQ_systemTrack(systemTracks), AQ_micTrack(micStream) >>
    ELSE << AQ_micTrack(micStream) >>

AQ_Init ==
  /\ aqPc = "idle"
  /\ aqSource = "microphone"
  /\ aqMicrophoneId = NoDevice
  /\ aqSystemStream = "null"
  /\ aqSystemTracks = "none"
  /\ aqMicStream = NoDevice
  /\ aqTracks = <<>>
  /\ aqError = AQ_NoError

\* startRecording(audioSource, microphoneId) up to its first await
AQ_startRecording(audioSource, microphoneId) ==
  /\ aqPc \in { "idle", "recording", "failed" }
  /\ aqSource' = audioSource
  /\ aqMicrophoneId' = microphoneId
  /\ aqPc' = CASE audioSource = "both" -> "display"
               [] audioSource = "system" -> "systemOnly"
               [] OTHER -> "microphoneOnly"
  /\ aqSystemStream' = "null"
  /\ aqSystemTracks' = "none"
  /\ aqMicStream' = NoDevice
  /\ aqTracks' = <<>>
  /\ UNCHANGED << aqError, aqOthers >>

\* 'both': getDisplayMedia has settled; a stream without audio tracks is
\* stopped and dropped, a rejection is swallowed; getUserMedia is called.
AQ_getDisplayMedia(outcome) ==
  /\ aqPc = "display"
  /\ aqPc' = "usermedia"
  /\ IF outcome = "audio"
       THEN aqSystemStream' = "stream" /\ aqSystemTracks' = "live"
       ELSE aqSystemStream' = "null" /\ aqSystemTracks' = "none"
  /\ UNCHANGED << aqSource, aqMicrophoneId, aqMicStream, aqTracks, aqError,
                  aqOthers >>

\* 'both': getUserMedia(audioConstraints) has settled.  A rejection stops the
\* tracks of the system stream, and then asks for the default microphone if
\* a microphone was selected, and throws otherwise.
AQ_getUserMedia(granted) ==
  /\ aqPc = "usermedia"
  /\ IF granted
       THEN /\ aqMicStream' = AQ_device(aqMicrophoneId)
            /\ aqTracks' = AQ_combine(aqSystemStream, aqSystemTracks,
                                      AQ_device(aqMicrophoneId))
            /\ aqPc' = "recording"
            /\ aqError' = AQ_NoError
            /\ UNCHANGED aqSystemTracks
       ELSE /\ aqSystemTracks' =
                 IF aqSystemStream # "null" THEN "ended" ELSE aqSystemTracks
            /\ IF aqMicrophoneId # NoDevice
                 THEN aqPc' = "fallback" /\ UNCHANGED aqError
                 ELSE aqPc' = "failed" /\ aqError' = AQ_MicrophoneRequired
            /\ UNCHANGED << aqMicStream, aqTracks >>
  /\ UNCHANGED << aqSource, aqMicrophoneId, aqSystemStream, aqOthers >>

\* 'both': the getUserMedia of the fallback to the default microphone has
\* settled.
AQ_fallback(granted) ==
  /\ aqPc = "fallback"
  /\ IF granted
       THEN /\ aqMicStream' = DefaultDevice
            /\ aqTracks' = AQ_combine(aqSystemStream, aqSystemTracks,
                                      DefaultDevice)
            /\ aqPc' = "recording"
            /\ aqError' = AQ_NoError
       ELSE /\ aqPc' = "failed"
            /\ aqError' = AQ_MicrophoneRequired
            /\ UNCHANGED << aqMicStream, aqTracks >>
  /\ UNCHANGED << aqSource, aqMicrophoneId, aqSystemStream, aqSystemTracks,
                  aqOthers >>

\* 'system': the first getDisplayMedia has settled.
AQ_systemDisplay(outcome) ==
  /\ aqPc = "systemOnly"
  /\ CASE outcome = "audio" ->
            /\ aqTracks' = << AQ_systemTrack("live") >>
            /\ aqPc' = "recording"
            /\ aqError' = AQ_NoError
       [] outcome = "silent" ->
            /\ aqPc' = "systemAlternative"
            /\ UNCHANGED << aqTracks, aqError >>
       [] OTHER ->
            /\ aqPc' = "failed"
            /\ aqError' = AQ_ScreenSharingCancelled
            /\ UNCHANGED aqTracks
  /\ UNCHANGED << aqSource, aqMicrophoneId, aqSystemStream, aqSystemTracks,
                  aqMicStream, aqOthers >>

\* 'system': the getDisplayMedia of the alternative method has settled; what
\* it throws is an Error, which the outer catch wraps.
AQ_systemAlternative(outcome) ==
  /\ aqPc = "systemAlternative"
  /\ IF outcome = "audio"
       THEN /\ aqTracks' = << AQ_systemTrack("live") >>
            /\ aqPc' = "recording"
            /\ aqError' = AQ_NoError
       ELSE /\ aqPc' = "failed"
            /\ aqError' = AQ_SystemAudioFailed
            /\ UNCHANGED aqTracks
  /\ UNCHANGED << aqSource, aqMicrophoneId, aqSystemStream, aqSystemTracks,
                  aqMicStream, aqOthers >>

\* 'microphone': getUserMedia, called without a deviceId, has settled.
AQ_microphoneOnly(granted) ==
  /\ aqPc = "microphoneOnly"
  /\ IF granted
       THEN /\ aqMicStream' = DefaultDevice
            /\ aqTracks' = << AQ_micTrack(DefaultDevice) >>
            /\ aqPc' = "recording"
            /\ aqError' = AQ_NoError
       ELSE /\ aqPc' = "failed"
            /\ aqError' = AQ_NotAllowed
            /\ UNCHANGED << aqMicStream, aqTracks >>
  /\ UNCHANGED << aqSource, aqMicrophoneId, aqSystemStream, aqSystemTracks,
                  aqOthers >>

AQ_Next ==
  \/ \E audioSource \in AudioSources, microphoneId \in MicrophoneIds :
       AQ_startRecording(audioSource, microphoneId)
  \/ \E outcome \in DisplayOutcomes : AQ_getDisplayMedia(outcome)
  \/ \E granted \in BOOLEAN : AQ_getUserMedia(granted)
  \/ \E granted \in BOOLEAN : AQ_fallback(granted)
  \/ \E outcome \in DisplayOutcomes : AQ_systemDisplay(outcome)
  \/ \E outcome \in DisplayOutcomes : AQ_systemAlternative(outcome)
  \/ \E granted \in BOOLEAN : AQ_microphoneOnly(granted)

\* ------------------------------------------------------------------
\* GoogleDriveService.saveSession (src/src/services/googleDriveService.ts)

\* Session names, as texts.
DRV_Names == { <<>>, << " " >>, << "a" >>, << " ", "a" >> }

\* MIME types, split at "/": "audio/webm", "audio/wav", "text/html", "audio"
\* and the empty type.
DRV_Types ==
  { << "audio", "webm" >>, << "audio", "wav" >>, << "text", "html" >>,
    << "audio" >>, <<>> }

DRV_NoBlob == [null |-> TRUE]

DRV_Blobs ==
  { DRV_NoBlob } \cup [size : { 0, 1, 2 }, type : DRV_Types]

\* type.startsWith('audio/')
DRV_startsWithAudio(type) == Len(type) >= 2 /\ type[1] = "audio"

DRV_NoError == ""
DRV_NameRequired == "Session name is required"
DRV_AudioRequired == "Audio recording is required"
DRV_InvalidType == "Invalid file type. Expected audio file."
DRV_NoToken == "No authentication token received"
DRV_FolderFailed == "Failed to create folder"
DRV_UploadFailed == "Failed to upload file"

\* The input validation of saveSession without the test of the type.
DRV_validateNoType(name, blob) ==
  IF Trim(name) = <<>> THEN DRV_NameRequired
  ELSE IF blob = DRV_NoBlob \/ blob.size = 0 THEN DRV_AudioRequired
  ELSE DRV_NoError

\* The input validation of saveSession: what it throws, or no error.
DRV_validate(name, blob) ==
  IF name = <<>> \/ Trim(name) = <<>> THEN DRV_NameRequired
  ELSE IF blob = DRV_NoBlob \/ blob.size = 0 THEN DRV_AudioRequired
  ELSE IF ~DRV_startsWithAudio(blob.type) THEN DRV_InvalidType
  ELSE DRV_NoError

\* The requests of a session that is saved, in the order of the code.
DRV_Order == << "createFolder", "uploadAudio", "uploadNotes" >>

\* What a step throws when its response is not ok.
DRV_failure(step) ==
  IF step = "createFolder" THEN DRV_FolderFailed ELSE DRV_UploadFailed

\* What a step does: getAccessToken fails, or the request is sent and is
\* answered with an error, or it is answered with the file.
DRV_Outcomes == { "no-token", "not-ok", "ok" }

DRV_Init ==
  /\ drvStep = "idle"
  /\ drvPromise = "none"
  /\ drvName = <<>>
  /\ drvBlob = DRV_NoBlob
  /\ drvRequests = <<>>
  /\ drvError = DRV_NoError

\* saveSession(name, ..., audioBlob, ...): the input validation, and the call
\* of createFolder.
DRV_saveSession(name, blob) ==
  /\ drvPromise # "pending"
  /\ drvName' = name
  /\ drvBlob' = blob
  /\ drvRequests' = <<>>
  /\ drvError' = DRV_validate(name, blob)
  /\ IF DRV_validate(name, blob) = DRV_NoError
       THEN drvStep' = "createFolder" /\ drvPromise' = "pending"
       ELSE drvStep' = "validating" /\ drvPromise' = "rejected"
  /\ UNCHANGED drvOthers

\* The step `step` of saveSession (createFolder or uploadFile) returns or
\* throws; `next` is what follows it.  What it throws is rethrown by the
\* catch of saveSession.
DRV_step(step, outcome, next) ==
  /\ drvPromise = "pending"
  /\ drvStep = step
  /\ drvRequests' =
       IF outcome = "no-token" THEN drvRequests ELSE Append(drvRequests, step)
  /\ IF outcome = "ok"
       THEN /\ drvStep' = next
            /\ drvPromise' = IF next = "done" THEN "resolved" ELSE "pending"
            /\ UNCHANGED drvError
       ELSE /\ drvPromise' = "rejected"
            /\ drvError' =
                 IF outcome = "no-token" THEN DRV_NoToken ELSE DRV_failure(step)
            /\ UNCHANGED drvStep
  /\ UNCHANGED << drvName, drvBlob, drvOthers >>

\* this.createFolder(folderName)
DRV_createFolder(outcome) ==
  /\ drvStep = "createFolder"
  /\ DRV_step("createFolder", outcome, "uploadAudio")

\* this.uploadFile(audioBlob, audioFileName, folder.id)
DRV_uploadAudio(outcome) ==
  /\ drvStep = "uploadAudio"
  /\ DRV_step("uploadAudio", outcome, "uploadNotes")

\* this.uploadFile(notesBlob, 'meeting-notes.html', folder.id)
DRV_uploadNotes(outcome) ==
  /\ drvStep = "uploadNotes"
  /\ DRV_step("uploadNotes", outcome, "done")

DRV_Next ==
  \/ \E name \in DRV_Names, blob \in DRV_Blobs : DRV_saveSession(name, blob)
  \/ \E outcome \in DRV_Outcomes : DRV_createFolder(outcome)
  \/ \E outcome \in DRV_Outcomes : DRV_uploadAudio(outcome)
  \/ \E outcome \in DRV_Outcomes : DRV_uploadNotes(outcome)

\* ------------------------------------------------------------------
\* The background service worker: OPEN_OFFSCREEN (src/unnamed/part_002)

\* OPEN_OFFSCREEN requests, which may overlap.
MaxRequests == 3
Requests == 1..MaxRequests

BG_NoResponse == [success |-> FALSE, error |-> "none"]
BG_Success == [success |-> TRUE, error |-> ""]

\* What chrome.offscreen.createDocument rejects with while a document exists.
BG_SingleDocument == "Only a single offscreen document may be created."
BG_CreateFailed == "createDocument failed"

BG_failure(error) == [success |-> FALSE, error |-> error]

BG_Init ==
  /\ bgPc = [q \in Requests |-> "idle"]
  /\ bgDocuments = 0
  /\ bgCreated = 0
  /\ bgResponse = [q \in Requests |-> BG_NoResponse]

\* onMessage, OPEN_OFFSCREEN: createOffscreenDocument up to
\* `await chrome.runtime.getContexts(...)`
BG_onMessage(q) ==
  /\ bgPc[q] = "idle"
  /\ bgPc' = [bgPc EXCEPT ![q] = "getContexts"]
  /\ UNCHANGED << bgDocuments, bgCreated, bgResponse, bgOthers >>

\* getContexts has answered: with a document, createOffscreenDocument
\* returns and success is sent; without one, createDocument is called.
BG_existingContexts(q) ==
  /\ bgPc[q] = "getContexts"
  /\ IF bgDocuments > 0
       THEN /\ bgPc' = [bgPc EXCEPT ![q] = "answered"]
            /\ bgResponse' = [bgResponse EXCEPT ![q] = BG_Success]
       ELSE /\ bgPc' = [bgPc EXCEPT ![q] = "createDocument"]
            /\ UNCHANGED bgResponse
  /\ UNCHANGED << bgDocuments, bgCreated, bgOthers >>

\* chrome.offscreen.createDocument has settled: the browser rejects it while
\* a document exists, and may fail to create one; the catch of
\* createOffscreenDocument rethrows, and the listener answers with the error.
BG_createDocument(q, created) ==
  /\ bgPc[q] = "createDocument"
  /\ bgPc' = [bgPc EXCEPT ![q] = "answered"]
  /\ IF bgDocuments > 0
       THEN /\ bgResponse' =
                 [bgResponse EXCEPT ![q] = BG_failure(BG_SingleDocument)]
            /\ UNCHANGED << bgDocuments, bgCreated >>
       ELSE IF created
              THEN /\ bgDocuments' = bgDocuments + 1
                   /\ bgCreated' = bgCreated + 1
                   /\ bgResponse' = [bgResponse EXCEPT ![q] = BG_Success]
              ELSE /\ bgResponse' =
                        [bgResponse EXCEPT ![q] = BG_failure(BG_CreateFailed)]
                   /\ UNCHANGED << bgDocuments, bgCreated >>
  /\ UNCHANGED bgOthers

BG_Next ==
  \/ \E q \in Requests : BG_onMessage(q)
  \/ \E q \in Requests : BG_existingContexts(q)
  \/ \E q \in Requests, created \in BOOLEAN : BG_createDocument(q, created)

\* ------------------------------------------------------------------
\* Claims about SpeechToTextService.transcribeAudioFile (SpecStt)

STT_PermissionMessages ==
  { getRecognitionErrorMessage(code) : code \in PermissionCodes }

\* Strategy s was attempted and did not succeed: it rejected, or resolved with
\* text that trims to nothing.
STT_Failed(s) ==
  \/ sttPromise[s] = "rejected"
  \/ sttPromise[s] = "resolved" /\ Trim(sttVal[s].fullText) = <<>>

STT_Succeeded(s) ==
  sttPromise[s] = "resolved" /\ Trim(sttVal[s].fullText) # <<>>

\* Strategy s failed in a way the spec calls recoverable (not permission-denied).
STT_FailedRecoverably(s) ==
  STT_Failed(s) /\ sttErr[s] \notin STT_PermissionMessages

\* C1: within one call the strategies are attempted in list order (a strategy is
\* started only after every earlier one failed); the call resolves exactly with
\* the result of the first strategy that yields non-empty trimmed text; and a
\* strategy that returned empty text or threw a recoverable error is always
\* followed by the next strategy.
C1_FirstSuccessInOrder ==
  /\ \A s \in Strategies :
       sttPromise[s] # "none" => \A j \in 1 .. s - 1 : STT_Failed(j)
  /\ \A s \in Strategies :
       STT_Succeeded(s) => sttPc = "resolved" /\ sttResult = sttVal[s]
  /\ sttPc = "resolved" => \E s \in Strategies : STT_Succeeded(s)
  /\ \A s \in 1 .. NumStrategies - 1 :
       STT_FailedRecoverably(s) => sttPromise[s + 1] # "none"

\* Strategy 1 threw the recoverable no-speech error and the call resolved with
\* the non-empty result of strategy 2.
C1_Witness ==
  /\ sttPc = "resolved"
  /\ sttPromise[1] = "rejected"
  /\ sttErr[1] = getRecognitionErrorMessage("no-speech")
  /\ STT_Succeeded(2)
  /\ sttResult = sttVal[2]

\* C12: when the call fails, every strategy has failed and the error thrown
\* is built from the error of the last strategy: the message that strategy
\* rejected with is what follows "Technical error: ", whatever an earlier
\* strategy rejected with.
C12_FailureCarriesTheLastError ==
  sttPc = "rejected" =>
    /\ \A s \in Strategies : sttPromise[s] = "rejected"
    /\ sttErr[NumStrategies] # NoError
    /\ SubSeq(sttError, Len(sttError) - Len(sttErr[NumStrategies]) + 1,
              Len(sttError)) = sttErr[NumStrategies]
    /\ STT_AllFailed # sttErr[NumStrategies]

\* Strategy 1 rejected with the no-speech message, strategy 2 with the network
\* message, and the call failed with the network message.
C12_Witness ==
  /\ sttPc = "rejected"
  /\ sttErr[1] = getRecognitionErrorMessage("no-speech")
  /\ sttErr[2] = getRecognitionErrorMessage("network")
  /\ sttError[Len(sttError)] = getRecognitionErrorMessage("network")[1]

\* C14: the error of a failed call carries the hint of the call's audio
\* source, and that hint is not the one a call with another audio source
\* gets.
C14_HintIsSpecificToTheSource ==
  sttPc = "rejected" =>
    \A other \in AudioSources \ { sttSource } :
      sttError[2] # STT_wrap(<<>>, other)[2]

\* C15: when the pre-check of the clip fails (the clip does not decode or is
\* shorter than a second) the call fails and no strategy is attempted.
C15_FailedPrecheckAbortsTheCall ==
  (sttPc \notin { "idle", "analysing" } /\ STT_precheckThrows(sttClip))
    => /\ sttPc = "rejected"
       /\ \A s \in Strategies : sttPromise[s] = "none"

\* C3: a strategy that fails with a permission-denied engine error makes the call
\* fail at once with that error, and no later strategy is started.
C3_PermissionDeniedStopsTheCall ==
  \A s \in Strategies :
    (sttPromise[s] = "rejected" /\ sttErr[s] \in STT_PermissionMessages)
      => /\ sttPc = "rejected"
         /\ sttError = STT_wrap(sttErr[s], sttSource)
         /\ \A j \in s + 1 .. NumStrategies : sttPromise[j] = "none"

\* What strategy s holds: its recognizer's session, its playback, its timers.
STT_Released(s) ==
  /\ ~Live(sttRec[s])
  /\ sttTimers[s] = {}
  /\ s = 1 => sttAudio \notin { "starting", "playing" }

\* C5: in the step that starts strategy s + 1, strategy s holds nothing any
\* more: its session has ended, its playback is over and none of its timers is
\* pending.
C5_NextStrategyStartsAfterRelease ==
  [][ \A s \in 1 .. NumStrategies - 1 :
        (sttPromise[s + 1] = "none" /\ sttPromise'[s + 1] = "pending")
          => STT_Released(s)' ]_vars

\* ------------------------------------------------------------------
\* Claims about TrueOfflineTranscriptionService (SpecOffline)

\* C2: a transcription call never succeeds with empty text: a session that ends
\* without a final segment makes the call fail instead of resolving with
\* fullText = "".
C2_NeverResolvesEmpty ==
  \A c \in Calls : toPc[c] = "resolved" => toResult[c].fullText # <<>>

\* C6: a call whose recognition promise is pending owns the recognizer: the
\* handlers installed on this.recognition are its own and the active session is
\* the one it started, so no other call has replaced the handlers that settle it.
C6_PendingCallOwnsTheRecognizer ==
  \A c \in Calls :
    toPromise[c] = "pending" => toOwner = c /\ toSession = c

\* C8: once an attempt has settled, the stop-timer it armed is no longer pending.
C8_SettledAttemptHasNoTimer ==
  \A c \in Calls :
    toPromise[c] \in { "resolved", "rejected" } => ~toTimer[c]

\* C13: when the recognizer reports an error code to a pending call, the
\* error the call throws starts with the message made for that code (for
\* no-speech and audio-capture the mapped message, else the text naming the
\* code); it is never the unknown-error text.
C13_FailureKeepsTheEngineMessage ==
  [][ \A code \in ErrorCodes :
        (TO_onerror(code) /\ toPromise[toOwner] = "pending")
          => LET message == TO_onerrorReason(code, toSource[toOwner]).message IN
             /\ toError'[toOwner][1] # "Unknown error occurred"
             /\ SubSeq(toError'[toOwner], 1, Len(message)) = message ]_vars

\* C16: a clip of more than 25,000,000 bytes is refused by validation as too
\* large, whatever its duration and whether or not it decodes: the call
\* fails with the too-large reason.
C16_OversizedClipIsTooLarge ==
  \A c \in Calls :
    (toPc[c] \notin { "idle", "validating" } /\ toClip[c].size > 25000000)
      => /\ toPc[c] = "rejected"
         /\ toError[c] =
              TO_enhanceError(ValidationFailed(TO_TooLarge), toSource[c])

\* C18: once validation has returned, the audio context it opened is closed,
\* whatever the outcome.
C18_ValidationClosesItsContext ==
  \A c \in Calls :
    toPc[c] \notin { "idle", "validating" } => toCtx[c] = "closed"

\* C20: every final result that is kept adds the confidence the engine
\* reported for it to the sum, and a result the call resolves with has the
\* mean of those confidences as averageConfidence (0 without segments) and
\* hasLowConfidence exactly when that mean is below 0.6.
C20_AverageIsTheMeanOfReportedConfidences ==
  [][ /\ \A r \in TO_Results :
           (TO_onresult(r) /\ r.isFinal /\ Trim(r.transcript) # <<>>)
             => toConfSum'[toOwner] = toConfSum[toOwner] + r.confidence
      /\ \A c \in Calls :
           (toPc[c] # "resolved" /\ toPc'[c] = "resolved")
             => LET result == toResult'[c]
                    n == Len(result.segments)
                IN /\ n = toSegCount[c]
                   /\ result.averageConfidence.num
                        = (IF n = 0 THEN 0 ELSE toConfSum[c])
                   /\ result.averageConfidence.den = (IF n = 0 THEN 1 ELSE n)
                   /\ result.hasLowConfidence
                        <=> result.averageConfidence.num
                              < 60 * result.averageConfidence.den ]_vars

\* C9: for a call that was cancelled by cleanup(), no timer it armed is pending
\* and no recognizer callback changes its state afterwards.
C9_NothingHappensAfterCleanup ==
  [][ \A c \in toCancelled :
        /\ ~toTimer[c]
        /\ << toPc[c], toPromise[c], toFinal[c], toSegs[c], toTracks[c],
              toResult[c], toError[c] >>'
             = << toPc[c], toPromise[c], toFinal[c], toSegs[c], toTracks[c],
                  toResult[c], toError[c] >> ]_vars

\* ------------------------------------------------------------------
\* Claims about validation (SpecValidation)

\* C4: a clip that decodes to less than 0.5 s never gets past validation: the
\* call of TrueOfflineTranscriptionService fails with the too-short reason and
\* has started no recognition session, and the call of
\* WhisperTranscriptionService fails with the too-short reason and has sent no
\* request.
C4_TooShortNeverReachesAnEngine ==
  /\ \A c \in Calls :
       (toPc[c] # "idle" /\ toClip[c].decodes /\ toClip[c].duration < 500)
         => /\ toPc[c] \in { "validating", "rejected" }
            /\ toPc[c] = "rejected"
                 => toError[c] = TO_enhanceError(
                      [isError |-> TRUE,
                       message |-> << "Audio validation failed: " >> \o TO_TooShort],
                      toSource[c])
            /\ toPromise[c] = "none"
            /\ toTracks[c] = "none"
            /\ toSession # c /\ toOwner # c
  /\ (whPc # "idle" /\ whClip.decodes /\ whClip.duration < 500)
       => /\ whPc \in { "validating", "rejected" }
          /\ whPc = "rejected"
               => whError = << "Audio validation failed: " >> \o WH_TooShort
          /\ whRequests = 0

\* C17: a clip that does not decode fails validation as an invalid format,
\* in both services: never as too short, and never as valid.
C17_UndecodableClipIsInvalidFormat ==
  /\ \A c \in Calls :
       (toPc[c] \notin { "idle", "validating" } /\ ~toClip[c].decodes)
         => /\ toPc[c] = "rejected"
            /\ toError[c] =
                 TO_enhanceError(ValidationFailed(InvalidFormat), toSource[c])
  /\ (whPc \notin { "idle", "validating" } /\ ~whClip.decodes)
       => /\ whPc = "rejected"
          /\ whError = ValidationFailed(InvalidFormat).message

\* Both services have rejected a 0.499 s clip as too short.
C4_Witness ==
  /\ toPc[1] = "rejected" /\ toClip[1].decodes /\ toClip[1].duration = 499
  /\ whPc = "rejected" /\ whClip.decodes /\ whClip.duration = 499
  /\ whRequests = 0 /\ toPromise[1] = "none"

\* ------------------------------------------------------------------
\* Claims about OfflineTranscriptionService (SpecInternal)

\* C7: a file transcription call settles; in particular, once the recognizer
\* has fired its end event the call is no longer pending.
C7_EndSettlesTheCall ==
  offRec = "ended" => offPromise # "pending"

\* ------------------------------------------------------------------
\* Claims about real-time transcription (SpecRealTime)

\* C10: once stopRealTimeTranscription has stopped the recognizer and
\* returned, the returned result and the store's transcription hold every
\* final segment the engine delivered in the session, those delivered after
\* the stop request as well.
C10_StopReturnsEveryFinalSegment ==
  rtStopped =>
    /\ rtReturned.segments = rtSegs
    /\ Trim(rtTranscription) = Trim(rtFinal)

\* A session of the real-time recognizer is active from start() to its end
\* event.
RT_Active == rtRec \in { "starting", "listening", "stopping" }

\* C11: startRealTimeTranscription called while a session is active throws,
\* and leaves the transcript and the segments of that session as they are.
C11_StartOnActiveSessionIsRejected ==
  [][ (RT_startRealTimeTranscription /\ RT_Active)
        => /\ rtError' # NoError
           /\ rtFinal' = rtFinal
           /\ rtSegs' = rtSegs ]_vars

\* C19: a result that is not final changes neither the accumulated final
\* text nor the segment list: they are made of the final results only.
C19_InterimResultsDoNotContribute ==
  [][ \A r \in RT_Results :
        (RT_onresult(r) /\ ~r.isFinal)
          => /\ rtFinal' = rtFinal
             /\ rtSegs' = rtSegs ]_vars

\* The engine has delivered a final and an interim result: one segment is
\* kept, and the interim text is held apart.
C19_Witness ==
  /\ rtSeen = 2
  /\ Len(rtSegs) = 1
  /\ rtInterim # <<>>
  /\ rtFinal = rtSegs[1].text \o << " " >>

\* ------------------------------------------------------------------
\* Claims about the side panel's automatic transcription
\* (SpecCleaning, SpecAutoTranscription)

\* C21: cleaning a transcription (strip the leading non-letters, collapse
\* the white space, trim) is idempotent: cleaning the cleaned text of any
\* result gives the cleaned text again.
C21_CleaningIsIdempotent ==
  clnPc = "again" =>
    /\ clnCleaned = cleanedText(clnText)
    /\ clnAgain = clnCleaned

\* A result that every step of the cleaning changes: it starts with a
\* non-letter, holds a run of white space and ends with white space.
C21_Witness ==
  /\ clnPc = "again"
  /\ clnText = << "1", "a", "\n", " ", "a", " " >>
  /\ clnCleaned = << "a", " ", "a" >>

\* C22: the cleaned text of a transcription is rejected as too short exactly
\* when it has fewer than five characters; a cleaned text of five characters
\* or more is appended to the notes.
C22_TooShortIsUnderTheMinimalLength ==
  [][ (spPc = "transcribing" /\ spHasResult' /\ Trim(spResult') # <<>>)
        => LET text == cleanedText(spResult') IN
             /\ (spError' = SP_TooShort) <=> (Len(text) < SP_MinLength)
             /\ (spNotes' = Append(spNotes, text))
                  <=> (Len(text) >= SP_MinLength) ]_vars

\* ------------------------------------------------------------------
\* Claims about CleanTranscriptionService (SpecClean)

\* C23: the strategy selected from the audio analysis is never empty: one
\* strategy with a single method for high-quality audio, and otherwise
\* several methods that are tried in turn, so that a call on audio that is
\* not of high quality does not fail before a second method has run.
C23_LowQualityGetsFallbackStrategies ==
  ctsStrategy # "none" =>
    /\ CTS_methods(ctsStrategy) # <<>>
    /\ ctsAnalysis.isHighQuality => Len(CTS_methods(ctsStrategy)) = 1
    /\ ~ctsAnalysis.isHighQuality =>
         /\ Len(CTS_methods(ctsStrategy)) > 1
         /\ ctsPc = "rejected" => Len(ctsAttempts) > 1

\* ------------------------------------------------------------------
\* Claims about the offscreen recorder (SpecRecorder)

\* The current recorder is in the given state.
OS_CurrentIs(state) == mediaRecorder # 0 /\ osState[mediaRecorder] = state

OS_Message(type) == [type |-> type, audioSource |-> "microphone"]

\* The recorder, its state and the chunks are as they were.
OS_RecorderUnchanged ==
  UNCHANGED << mediaRecorder, audioChunks, osState, osOnstop, osStopping >>

\* C26: once a recorder stopped by STOP_RECORDING has fired its stop event,
\* every track captured for it has been stopped.
C26_StopReleasesTheTracks ==
  \A r \in Recorders :
    (osOnstop[r] = "blob" /\ osState[r] = "inactive" /\ ~osStopping[r])
      => osTracks[r] = "stopped"

\* C28: the blob STOP_RECORDING answers with is made of chunks of the
\* recorder it stopped only: a recorder that startRecording stopped to make
\* room for it contributes no chunk.
C28_BlobHoldsOnlyItsRecordersChunks ==
  [][ \A r \in Recorders, hasData \in BOOLEAN :
        (OS_onstop(r, hasData) /\ osOnstop[r] = "blob")
          => \A i \in DOMAIN osResponse'.audioBlob.data :
               osResponse'.audioBlob.data[i] = r ]_vars

\* C29: a command that is invalid in the recorder's state is answered with
\* success: false and changes neither the recorder nor the chunks:
\* PAUSE_RECORDING succeeds only while recording, RESUME_RECORDING only
\* while paused, and STOP_RECORDING fails without a recorder and on an
\* inactive one.
C29_InvalidCommandIsRejectedAndChangesNothing ==
  [][ /\ OS_receive(OS_Message("PAUSE_RECORDING"))
           => IF OS_CurrentIs("recording")
                THEN osResponse'.success
                ELSE ~osResponse'.success /\ OS_RecorderUnchanged
      /\ OS_receive(OS_Message("RESUME_RECORDING"))
           => IF OS_CurrentIs("paused")
                THEN osResponse'.success
                ELSE ~osResponse'.success /\ OS_RecorderUnchanged
      /\ (OS_receive(OS_Message("STOP_RECORDING"))
            /\ (mediaRecorder = 0 \/ OS_CurrentIs("inactive")))
           => /\ osResponse'.type = "STOP_RECORDING"
              /\ ~osResponse'.success
              /\ OS_RecorderUnchanged ]_vars

\* A PAUSE_RECORDING was refused on a paused recorder that has collected a
\* chunk.
C29_Witness ==
  /\ osResponse.type = "PAUSE_RECORDING"
  /\ ~osResponse.success
  /\ OS_CurrentIs("paused")
  /\ audioChunks # <<>>

\* ------------------------------------------------------------------
\* Claims about the recorder store and the side panel (SpecPanel)

\* C24: recordingTime changes only by +1 on a tick taken while recording
\* and not paused, and by a reset to 0 when a recording starts or the
\* session is reset; a tick while paused or stopped, pausing, resuming and
\* stopping leave it as it is.
C24_TimerKeepsTheRecordingDuration ==
  [][ /\ PN_incrementRecordingTime
           => recordingTime' =
                IF isRecording /\ ~isPaused THEN recordingTime + 1
                                            ELSE recordingTime
      /\ (PN_handlePauseResume \/ PN_handleStopRecording)
           => recordingTime' = recordingTime
      /\ recordingTime' # recordingTime
           => \/ /\ PN_incrementRecordingTime
                 /\ isRecording /\ ~isPaused
                 /\ recordingTime' = recordingTime + 1
              \/ /\ \/ PN_handleStartRecording
                    \/ PN_handleResetSession
                    \/ PN_autoReset
                 /\ recordingTime' = 0 ]_vars

\* A paused recording that has counted to the end of the timer: the ticks
\* of the pause have not moved it.
C24_Witness ==
  /\ isRecording /\ isPaused
  /\ recordingTime = MaxTime
  /\ pnHandled = "PAUSE_RECORDING"
  /\ OS_CurrentIs("paused")

\* The container format a MIME type names.
C25_Format(mimeType) ==
  CASE mimeType \in { MimeTypes[1], MimeTypes[2], MimeTypes[3] } -> "webm"
    [] mimeType = << "audio/mp4" >> -> "mp4"
    [] mimeType \in { MimeTypes[5], << "audio/ogg" >> } -> "ogg"
    [] mimeType = << "audio/wav" >> -> "wav"
    [] OTHER -> "none"

C25_Extension(format) ==
  CASE format = "webm" -> "webm"
    [] format = "mp4" -> "m4a"
    [] format = "ogg" -> "ogg"
    [] format = "wav" -> "wav"
    [] OTHER -> ""

\* C25: the audio file uploaded to Drive has the MIME type and the file
\* extension of the format its recorder encoded it in.
C25_UploadKeepsTheRecordedFormat ==
  pnDriveFile # NoFile =>
    /\ C25_Format(pnDriveFile.type) = C25_Format(pnDriveFile.encoding)
    /\ pnDriveFile.extension = C25_Extension(C25_Format(pnDriveFile.encoding))

\* C27: when the response to a recording command has been handled and no
\* command is under way, the store agrees with the recorder: isRecording
\* only if the recorder is active, isPaused only if it is paused.
C27_StoreAgreesWithTheRecorder ==
  (pnPc = "idle" /\ pnHandled \in MessageTypes /\ osStart = "none")
    => /\ isRecording => (OS_CurrentIs("recording") \/ OS_CurrentIs("paused"))
       /\ isPaused => OS_CurrentIs("paused")

\* C30: the auto-stop timer a call armed stops only the recognition session
\* that call started: when it fires while the recognizer runs the session of
\* another call, that session is left as it is.
C30_TimerStopsOnlyItsOwnSession ==
  [][ \A c \in Calls :
        (TO_timer(c) /\ toSession # c) => toRec' = toRec ]_vars

\* C31: a tick of the poll interval that runs while the recognizer is still
\* starting (recognition.start() has been called, onstart has not fired)
\* neither clears the interval nor clears isTranscribing.
C31_PollBeforeStartKeepsPolling ==
  [][ (RT_poll /\ rtRec = "starting")
        => (rtPolls' = rtPolls /\ rtTranscribing' = rtTranscribing) ]_vars

\* C32: appending the automatic transcription keeps the notes as they are
\* when it is appended: the notes after the step begin with the notes before
\* it, what was typed while the transcription was in flight included.
C32_AppendKeepsTheNotesOfTheMoment ==
  [][ (\E fullText \in Texts : SP_resolved(fullText))
        => /\ Len(spNotes') >= Len(spNotes)
           /\ SubSeq(spNotes', 1, Len(spNotes)) = spNotes ]_vars

\* C34: a transcription that was in flight when the session was reset
\* changes nothing of the session when it settles: neither the notes nor
\* the result nor the error of the automatic transcription.
C34_ResetDropsTheTranscriptionInFlight ==
  [][ ( /\ spReset
        /\ \/ \E fullText \in Texts : SP_resolved(fullText)
           \/ \E thrown \in SP_Thrown : SP_rejected(thrown) )
        => /\ spNotes' = spNotes
           /\ spHasResult' = spHasResult
           /\ spResult' = spResult
           /\ spError' = spError ]_vars

\* C33: the reset a successful save schedules leaves a recording that was
\* started before it fires as it is: isRecording, isPaused and recordingTime
\* of the new recording are not changed.
C33_DelayedResetSparesANewRecording ==
  [][ (PN_autoReset /\ isRecording)
        => /\ isRecording'
           /\ isPaused' = isPaused
           /\ recordingTime' = recordingTime ]_vars

\* C35: in 'both' mode every track of the recorded stream is live: a
\* system stream that was stopped when the microphone failed gives no track
\* to a recording that starts through the fallback to the default microphone.
C35_BothRecordsLiveTracksOnly ==
  (aqPc = "recording" /\ aqSource = "both")
    => \A i \in DOMAIN aqTracks : aqTracks[i].readyState = "live"

\* C36: a recording started with a selected microphone, in a mode that
\* records the microphone, captures from the selected device when the
\* request for it is granted: in 'microphone' mode as in 'both' mode.
C36_SelectedMicrophoneIsUsed ==
  [][ (\/ AQ_microphoneOnly(TRUE)
       \/ AQ_getUserMedia(TRUE))
        => (aqMicrophoneId # NoDevice => aqMicStream' = aqMicrophoneId) ]_vars

\* The requests sent so far are the first requests of the order
\* create-folder, upload-audio, upload-notes.
DRV_InOrder ==
  /\ Len(drvRequests) <= Len(DRV_Order)
  /\ drvRequests = SubSeq(DRV_Order, 1, Len(drvRequests))

\* The position of a step in that order.
DRV_Position(step) ==
  CHOOSE i \in DOMAIN DRV_Order : DRV_Order[i] = step

\* C37: saveSession sends nothing when the name is empty or blank, the
\* audio is missing or empty, or its type does not start with "audio/", and
\* rejects; otherwise it sends create-folder, upload-audio, upload-notes in
\* that order, a step that fails rejects the call with what the step threw,
\* and no request follows the failed step.
C37_SaveValidatesThenUploadsInOrder ==
  /\ DRV_InOrder
  /\ drvPromise # "none" =>
       IF \/ Trim(drvName) = <<>>
          \/ drvBlob = DRV_NoBlob
          \/ drvBlob.size = 0
          \/ ~(Len(drvBlob.type) >= 2 /\ drvBlob.type[1] = "audio")
         THEN /\ drvPromise = "rejected"
              /\ drvRequests = <<>>
              /\ drvError \in { DRV_NameRequired, DRV_AudioRequired,
                                 DRV_InvalidType }
         ELSE CASE drvPromise = "resolved" ->
                     drvRequests = DRV_Order /\ drvError = DRV_NoError
                [] drvPromise = "rejected" ->
                     \/ /\ drvError = DRV_NoToken
                        /\ Len(drvRequests) = DRV_Position(drvStep) - 1
                     \/ /\ drvError = DRV_failure(drvStep)
                        /\ Len(drvRequests) = DRV_Position(drvStep)
                [] OTHER ->
                     /\ Len(drvRequests) = DRV_Position(drvStep) - 1
                     /\ drvError = DRV_NoError

\* A call was rejected at the upload of the audio, after the folder was
\* created: the notes were not uploaded.
C37_Witness ==
  /\ drvPromise = "rejected"
  /\ drvStep = "uploadAudio"
  /\ drvError = DRV_UploadFailed
  /\ drvRequests = << "createFolder", "uploadAudio" >>

\* C38: whatever OPEN_OFFSCREEN requests were made, overlapping ones
\* included, at most one offscreen document was created, and a request that
\* was answered while a document exists was answered with success.
C38_OpenOffscreenIsIdempotent ==
  /\ bgCreated <= 1
  /\ \A q \in Requests :
       (bgPc[q] = "answered" /\ bgDocuments > 0) => bgResponse[q].success

Init == STT_Init /\ TO_Init /\ WH_Init /\ OFF_Init /\ RT_Init /\ SP_Init
  /\ CLN_Init /\ CTS_Init /\ OS_Init
  /\ PN_Init /\ AQ_Init /\ DRV_Init /\ BG_Init

SpecStt == Init /\ [][STT_Next]_vars

SpecOffline == Init /\ [][TO_Next]_vars

SpecInternal == Init /\ [][OFF_Next]_vars

SpecRealTime == Init /\ [][RT_Next]_vars

SpecValidation == Init /\ [][Validation_Next]_vars

SpecClean == Init /\ [][CTS_Next]_vars

SpecRecorder == Init /\ [][OS_Next]_vars

SpecCapture == Init /\ [][AQ_Next]_vars

SpecDrive == Init /\ [][DRV_Next]_vars

SpecBackground == Init /\ [][BG_Next]_vars

SpecPanel == Init /\ [][PN_Next]_vars

SpecCleaning == Init /\ [][CLN_Next]_vars

SpecAutoTranscription == Init /\ [][SP_Next]_vars

====
